---- MODULE Spec2Model ----
(***************************************************************************)
(* Flow-field pathfinding engine of train_game (src/src/flowfield.rs).     *)
(*                                                                         *)
(* Conventions of the model:                                                *)
(*  - a u8 bitmask is the set of its set bit positions (bit 0 = 0b1), so    *)
(*    `a | b` is union, `a & b != 0` is a non-empty intersection and        *)
(*    `a << 4` (in u8) shifts every position up by 4 and drops bits > 7;     *)
(*  - a Vec2 tile coordinate is a pair of integers in HALF-tile units, so   *)
(*    tile (1,2) spans 2..4 x 4..6 and its centre is <<3,5>>; `as_ivec2` /  *)
(*    `as isize` truncate, i.e. divide by 2;                                *)
(*  - a Dir2 (unit vector) is the pair <<dx,dy>> of coprime integers with   *)
(*    the same direction; the eight compass directions are the pairs with   *)
(*    components in -1..1; Option<Dir2> is << >> (None) or <<d>> (Some).    *)
(*  - the BinaryHeap is the set of its nodes; pop takes any node of minimal *)
(*    cost (the order among equal costs is an implementation detail of the  *)
(*    heap that the source does not fix).                                   *)
(***************************************************************************)
EXTENDS Integers, Sequences, FiniteSets, TLC

VARIABLES
    tilemap,    \* Tilemap component: [width, height] in tiles
    storage,    \* TileStorage: tile index -> u8 wall bitmask (set of bits)
    config,     \* Config resource
    fps,        \* frames per second of the running frame loop (Time resource)
    player,     \* the Player's Transform, as a tile coordinate in half tiles
    flowfield,  \* Flowfield component
    last,       \* observation of the last get_flow_at_tile call
    panicked,   \* TRUE once a handler has panicked (the process is gone)
    spawners,   \* the Spawner components, by object id
    chasers,    \* the Chaser entities in the order a Query iterates them
    events,     \* Events<SpawnerTriggerEvent> not yet read by update_spawners
    commands,   \* the deferred Commands not yet applied
    sched,      \* the position of the Update schedule within the frame
    spawned,    \* the spawners that spawned in this frame's update_spawners
    shapes,     \* the Points or Segments handed to == and to Hash::hash
    verdict,    \* what == and Hash::hash answered for them
    outline     \* load_tilemap's wall layer: the level, the segment registry, the loops

flowVars == <<tilemap, storage, config, fps, player, flowfield, last, panicked>>
spawnVars == <<spawners, chasers, events, commands, sched, spawned>>
geomVars == <<shapes, verdict, outline>>
vars == <<tilemap, storage, config, fps, player, flowfield, last, panicked,
          spawners, chasers, events, commands, sched, spawned, shapes, verdict,
          outline>>

----------------------------------------------------------------------------
(* Bounds of the model *)

\* the walled maps are GridW x GridH tiles; their walls lie among the first
\* WallCells tiles (in index order)
GridW == 3
GridH == 3
WallCells == 4
\* the open (wall-free) maps are OpenW x OpenH tiles
OpenW == 5
OpenH == 5
\* the long maps are LongW x LongH tiles with at most LongWalls walls
LongW == 6
LongH == 3
LongWalls == 2
\* the maps of the flow queries are FlowW x FlowH tiles with walls among the
\* first FlowWalls tiles; the inspector sets the cost threshold to its default
\* or to LowCostThreshold
FlowW == 2
FlowH == 2
FlowWalls == 1
LowCostThreshold == 5
\* a level has NumSpawners spawners (object ids 1..NumSpawners) with num_spawn
\* in 1..MaxNumSpawn, delay in 0..MaxDelay and interval in 0..MaxInterval; a
\* frame lasts 1..MaxDelta time units; the population cap max_chasers is
\* scaled down to 0..MaxChasers
NumSpawners == 1
MaxNumSpawn == 2
MaxDelay == 2
MaxInterval == 2
MaxDelta == 2
MaxChasers == 2
CapMax == 3

----------------------------------------------------------------------------
(* Program constants *)

\* u32::MAX, the infinite-cost sentinel.  TLC's integers are 32-bit signed, so
\* the model uses the largest of them; the code only compares the sentinel
\* with costs (=, <, >) and never adds to it.
U32Max == 2147483647
OrthogonalStep == 10
DiagonalStep == 14
\* the literal in get_flow_at_tile
HardCostThreshold == 150
DefaultFlowCostThreshold == 150
\* Config::default().seconds_per_iter = 0.4, in hundredths of a second
DefaultSecondsPerIterCs == 40
DefaultMaxChasers == 5000

N_BITMASK == {3}
E_BITMASK == {2}
S_BITMASK == {1}
W_BITMASK == {0}
NE_BITMASK == {7, 6}
SE_BITMASK == {6, 5}
SW_BITMASK == {5, 4}
NW_BITMASK == {7, 4}
WALL_BITMASK == 0..7

\* u8 `m << 4`
Shl4(m) == {b + 4 : b \in {c \in m : c + 4 <= 7}}

NORTH == <<0, 1>>
EAST == <<1, 0>>
SOUTH == <<0, -1>>
WEST == <<-1, 0>>
NORTH_EAST == <<1, 1>>
SOUTH_EAST == <<1, -1>>
SOUTH_WEST == <<-1, -1>>
NORTH_WEST == <<-1, 1>>

None == << >>
Some(d) == <<d>>

\* Flowfield::NEIGHBORS: ((dx, dy), dir, mask)
NEIGHBORS ==
    << [dx |-> 0,  dy |-> 1,  dir |-> NORTH,      mask |-> N_BITMASK],
       [dx |-> 1,  dy |-> 0,  dir |-> EAST,       mask |-> E_BITMASK],
       [dx |-> 0,  dy |-> -1, dir |-> SOUTH,      mask |-> S_BITMASK],
       [dx |-> -1, dy |-> 0,  dir |-> WEST,       mask |-> W_BITMASK],
       [dx |-> 1,  dy |-> 1,  dir |-> NORTH_EAST, mask |-> NE_BITMASK],
       [dx |-> 1,  dy |-> -1, dir |-> SOUTH_EAST, mask |-> SE_BITMASK],
       [dx |-> -1, dy |-> -1, dir |-> SOUTH_WEST, mask |-> SW_BITMASK],
       [dx |-> -1, dy |-> 1,  dir |-> NORTH_WEST, mask |-> NW_BITMASK] >>

\* update_cost's NEIGHBORS: ((dx, dy), step_cost, wall_mask)
CostNeighbors ==
    << [dx |-> 0,  dy |-> 1,  step_cost |-> OrthogonalStep, mask |-> {3}],
       [dx |-> 1,  dy |-> 0,  step_cost |-> OrthogonalStep, mask |-> {2}],
       [dx |-> 0,  dy |-> -1, step_cost |-> OrthogonalStep, mask |-> {1}],
       [dx |-> -1, dy |-> 0,  step_cost |-> OrthogonalStep, mask |-> {0}],
       [dx |-> 1,  dy |-> 1,  step_cost |-> DiagonalStep,   mask |-> {7, 6}],
       [dx |-> 1,  dy |-> -1, step_cost |-> DiagonalStep,   mask |-> {6, 5}],
       [dx |-> -1, dy |-> -1, step_cost |-> DiagonalStep,   mask |-> {5, 4}],
       [dx |-> -1, dy |-> 1,  step_cost |-> DiagonalStep,   mask |-> {7, 4}] >>

----------------------------------------------------------------------------
(* Helpers *)

\* the vector f with f[k] = v (`f[k] = v;`)
Put(f, k, v) == [j \in DOMAIN f |-> IF j = k THEN v ELSE f[j]]

Abs(a) == IF a < 0 THEN -a ELSE a
Min(a, b) == IF a < b THEN a ELSE b
Max(a, b) == IF a < b THEN b ELSE a

\* Vec2::as_ivec2 on a non-negative tile coordinate in half-tile units
AsIVec2(v) == <<v[1] \div 2, v[2] \div 2>>

\* get_tile_coords(index, width)
get_tile_coords(index, width) == <<index % width, index \div width>>

\* Flowfield::get_index_at_tile: None (<< >>) or Some(index)
get_index_at_tile(ff, tile) ==
    IF tile[1] < 0 \/ tile[2] < 0
       \/ tile[2] \div 2 >= ff.height \/ tile[1] \div 2 >= ff.width
    THEN None
    ELSE Some((tile[1] \div 2) + (tile[2] \div 2) * ff.width)

\* Flowfield::get_minimum_cost_at_index
get_minimum_cost_at_index(ff, index) ==
    LET xy == get_tile_coords(index, ff.width)
        x_diff == Abs(ff.transient_target[1] - xy[1])
        y_diff == Abs(ff.transient_target[2] - xy[2])
        diag_count == Min(x_diff, y_diff)
        straight_count == Max(x_diff, y_diff) - diag_count
    IN diag_count * DiagonalStep + straight_count * OrthogonalStep

\* Tilemap::world_to_tile_coords clamps into [0, width-1] x [0, height-1]
world_to_tile_coords(map, p) ==
    << Max(0, Min(p[1], 2 * (map.width - 1))),
       Max(0, Min(p[2], 2 * (map.height - 1))) >>

----------------------------------------------------------------------------
(* setup_flowfield *)

setup_flowfield(ff, map) ==
    [ff EXCEPT !.width = map.width,
               !.height = map.height,
               !.field = [i \in 0..(map.width * map.height - 1) |-> None],
               !.cost_grid = [i \in 0..(map.width * map.height - 1) |-> <<U32Max, FALSE>>],
               !.target_changed = TRUE,
               !.transient_target = <<0, 0>>]

(* update_target *)

UpdateTargetOnly(ff, map, translation) ==
    [ff EXCEPT !.target = world_to_tile_coords(map, translation)]

update_target(ff, map, translation) ==
    LET t == world_to_tile_coords(map, translation)
    IN [ff EXCEPT !.target = t,
                  !.target_changed = IF AsIVec2(t) # ff.transient_target
                                     THEN TRUE ELSE ff.target_changed]

----------------------------------------------------------------------------
(* update_cost *)

DiagonalNeverBlocked(step_cost, wall_mask, mask) == FALSE

\* `step_cost == 14 && (wall_mask << 4) & mask != 0`
DiagonalBlocked(step_cost, wall_mask, mask) ==
    step_cost = DiagonalStep /\ (Shl4(wall_mask) \cap mask) # {}

ExpandNeighborRevisits(ff, i, cost, nb, wall_mask) ==
    LET next_x == (i % ff.width) + nb.dx
        next_y == (i \div ff.width) + nb.dy
        n == next_x + next_y * ff.width
    IN IF next_x < 0 \/ next_x >= ff.width \/ next_y < 0 \/ next_y >= ff.height
       THEN [ff |-> ff, wall_mask |-> wall_mask]
       ELSE IF storage[n] # {}
       THEN [ff |-> [ff EXCEPT !.cost_grid = Put(@, n, <<U32Max, TRUE>>)],
             wall_mask |-> wall_mask \cup nb.mask]
       ELSE IF DiagonalBlocked(nb.step_cost, wall_mask, nb.mask)
       THEN [ff |-> ff, wall_mask |-> wall_mask]
       ELSE [ff |-> [ff EXCEPT
                       !.cost_grid = Put(@, n, <<cost + nb.step_cost, TRUE>>),
                       !.heap = @ \cup {[index |-> n, cost |-> cost + nb.step_cost]}],
             wall_mask |-> wall_mask]

\* one pass through the body of `for &((dx, dy), step_cost, mask) in
\* NEIGHBORS.iter()` for the popped node (i, cost) and the entry nb: the
\* flowfield and the local wall_mask after it
ExpandNeighbor(ff, i, cost, nb, wall_mask) ==
    LET next_x == (i % ff.width) + nb.dx
        next_y == (i \div ff.width) + nb.dy
        n == next_x + next_y * ff.width
    IN IF next_x < 0 \/ next_x >= ff.width \/ next_y < 0 \/ next_y >= ff.height
       THEN [ff |-> ff, wall_mask |-> wall_mask]
       ELSE IF storage[n] # {}
       THEN [ff |-> [ff EXCEPT !.cost_grid = Put(@, n, <<U32Max, TRUE>>)],
             wall_mask |-> wall_mask \cup nb.mask]
       ELSE IF ff.cost_grid[n][2]
       THEN [ff |-> ff, wall_mask |-> wall_mask]
       ELSE IF DiagonalBlocked(nb.step_cost, wall_mask, nb.mask)
       THEN [ff |-> ff, wall_mask |-> wall_mask]
       ELSE [ff |-> [ff EXCEPT
                       !.cost_grid = Put(@, n, <<cost + nb.step_cost, TRUE>>),
                       !.heap = @ \cup {[index |-> n, cost |-> cost + nb.step_cost]}],
             wall_mask |-> wall_mask]

\* the loop over NEIGHBORS from its k-th entry on.  (CHOOSE over a singleton
\* only names the value of the pass before the loop goes on.)
RECURSIVE ExpandNeighbors(_, _, _, _, _)
ExpandNeighbors(ff, i, cost, k, wall_mask) ==
    IF k > Len(CostNeighbors) THEN ff
    ELSE CHOOSE r \in {ExpandNeighbors(s.ff, i, cost, k + 1, s.wall_mask) :
                         s \in {ExpandNeighbor(ff, i, cost, CostNeighbors[k], wall_mask)}} :
           TRUE

\* one iteration of the pop loop on the popped node nd
Expand(ff, nd) ==
    ExpandNeighbors([ff EXCEPT !.heap = @ \ {nd}, !.field = Put(@, nd.index, None)],
                    nd.index, nd.cost, 1, {})

AnyNodes(heap) == heap

MaxNodes(heap) == {nd \in heap : \A o \in heap : nd.cost >= o.cost}

\* BinaryHeap::pop with Node's reversed Ord: any node of least cost
MinNodes(heap) == {nd \in heap : \A o \in heap : nd.cost <= o.cost}

\* one iteration of `for _ in 0..iter_per_update { pop; expand }` from each
\* flowfield of the set ffs (a flowfield with an empty heap has left the loop)
PopStep(ffs) ==
    {ff \in ffs : ff.heap = {}}
    \cup UNION {{Expand(ff, nd) : nd \in MinNodes(ff.heap)} :
                ff \in {g \in ffs : g.heap # {}}}

\* the loop: the flowfields it can end in
RECURSIVE PopLoop(_, _)
PopLoop(ffs, iters) ==
    IF iters = 0 \/ \A ff \in ffs : ff.heap = {} THEN ffs
    ELSE CHOOSE r \in {PopLoop(next, iters - 1) : next \in {PopStep(ffs)}} : TRUE

\* (tile_count as f32 / (fps * config.seconds_per_iter)) as usize
iter_per_update(ff, cfg, rate) ==
    (ff.width * ff.height * 100) \div (rate * cfg.seconds_per_iter)

SeedKeepsVisited(ff) ==
    LET ff1 == [ff EXCEPT !.transient_target = AsIVec2(ff.target)]
        start == get_index_at_tile(ff1, ff1.target)
    IN IF start = None THEN <<ff1>>
       ELSE <<[ff1 EXCEPT !.cost_grid = Put(@, start[1], <<0, TRUE>>),
                          !.heap = {[index |-> start[1], cost |-> 0]}], TRUE>>

\* the `if flowfield.heap.is_empty() { ... }` block that seeds a wavefront;
\* << >> when get_index_at_tile fails and update_cost returns
SeedWavefront(ff) ==
    LET ff1 == [ff EXCEPT !.transient_target = AsIVec2(ff.target)]
        start == get_index_at_tile(ff1, ff1.target)
    IN IF start = None THEN <<ff1>>
       ELSE <<[ff1 EXCEPT
                 !.cost_grid = [i \in DOMAIN ff1.cost_grid |->
                                  IF i = start[1] THEN <<0, TRUE>>
                                  ELSE <<ff1.cost_grid[i][1], FALSE>>],
                 !.heap = {[index |-> start[1], cost |-> 0]}], TRUE>>

StartsWavefrontOnChange(ff) == ff.heap = {} \/ ff.target_changed

\* `if flowfield.heap.is_empty()`
StartsWavefront(ff) == ff.heap = {}

\* the set of flowfields update_cost can leave behind
update_cost(ff, cfg, rate) ==
    IF DOMAIN ff.cost_grid = {} THEN {ff}
    ELSE IF ~ff.target_changed /\ ff.heap = {} THEN {ff}
    ELSE
      LET seeded == IF StartsWavefront(ff) THEN SeedWavefront(ff) ELSE <<ff, TRUE>>
      IN IF Len(seeded) = 1 THEN {seeded[1]}
         ELSE {[r EXCEPT !.target_changed = IF r.heap = {} THEN FALSE ELSE @] :
                 r \in PopLoop({seeded[1]}, iter_per_update(ff, cfg, rate))}

----------------------------------------------------------------------------
(* Flowfield::get_flow_at_tile *)

RECURSIVE Gcd(_, _)
Gcd(a, b) == IF b = 0 THEN a ELSE Gcd(b, a % b)

\* Dir2::from_xy: Err (<< >>) for the zero vector, else Ok of the unit vector
Dir2FromXY(x, y) ==
    IF x = 0 /\ y = 0 THEN None
    ELSE LET g == Gcd(Abs(x), Abs(y)) IN Some(<<x \div g, y \div g>>)

\* [0., 1., FRAC_1_SQRT_2].contains(&dir.x.abs())
IsReferenceAngle(d) == d[1] = 0 \/ d[2] = 0 \/ Abs(d[1]) = Abs(d[2])

\* one pass through the body of the neighbour scan of cell i for the entry
\* nb; acc = [min, mask, f] are the locals `min`, `neighbor_wall_mask` and the
\* entry field[i]
ScanNeighbor(ff, i, nb, acc) ==
    LET next_col == (i % ff.width) + nb.dx
        next_row == (i \div ff.width) + nb.dy
        n == next_col + next_row * ff.width
    IN IF next_col < 0 \/ next_col >= ff.width
          \/ next_row < 0 \/ next_row >= ff.height
          \/ nb.mask \subseteq storage[i]
       THEN acc
       ELSE IF ff.cost_grid[n][1] = U32Max
       THEN [acc EXCEPT !.mask = @ \cup nb.mask]
       ELSE IF ff.cost_grid[n][1] < acc.min /\ (Shl4(acc.mask) \cap nb.mask) = {}
       THEN [acc EXCEPT !.min = ff.cost_grid[n][1], !.f = Some(nb.dir)]
       ELSE acc

\* the scan from its k-th entry on
RECURSIVE ScanNeighbors(_, _, _, _)
ScanNeighbors(ff, i, k, acc) ==
    IF k > Len(NEIGHBORS) THEN acc
    ELSE CHOOSE r \in {ScanNeighbors(ff, i, k + 1, a) :
                         a \in {ScanNeighbor(ff, i, NEIGHBORS[k], acc)}} : TRUE

SmoothingIgnoresSwitch(ff, i, f, neighbor_wall_mask, line_of_sight, smooth) ==
    /\ neighbor_wall_mask = {}
    /\ line_of_sight
    /\ \/ (f # None /\ f[1][1] # 0 /\ f[1][2] # 0)
       \/ (i % ff.width) = ff.transient_target[1]
       \/ (i \div ff.width) = ff.transient_target[2]

\* the condition of the smoothing branch
SmoothingApplies(ff, i, f, neighbor_wall_mask, line_of_sight, smooth) ==
    /\ neighbor_wall_mask = {}
    /\ line_of_sight
    /\ \/ (f # None /\ f[1][1] # 0 /\ f[1][2] # 0)
       \/ (i % ff.width) = ff.transient_target[1]
       \/ (i \div ff.width) = ff.transient_target[2]
    /\ smooth

\* the vector the smoothing branch hands to Dir2::from_xy, in half tiles
SmoothVector(ff, i, cost) ==
    LET tile == get_tile_coords(i, ff.width)
    IN IF cost < HardCostThreshold
       THEN <<ff.target[1] - 2 * tile[1] - 1, ff.target[2] - 2 * tile[2] - 1>>
       ELSE <<2 * ff.transient_target[1] - 2 * tile[1] - 1,
              2 * ff.transient_target[2] - 2 * tile[2] - 1>>

\* the test of the first `if`: memoized flow is accepted beyond this cost
BeyondThreshold(cfg, cost) == cost > HardCostThreshold

\* the result of one call: the flowfield afterwards, the direction returned
\* (<< >> when the call panicked) and what the call did
get_flow_at_tile(ff, cfg, tile, smooth) ==
    LET i == (tile[1] \div 2) + (tile[2] \div 2) * ff.width
        obs0 == [called |-> TRUE, index |-> i, smooth |-> smooth,
                 threshold |-> cfg.flow_cost_threshold,
                 cost |-> 0, line_of_sight |-> FALSE, memo |-> None,
                 early |-> FALSE, recomputed |-> FALSE, smoothed |-> FALSE,
                 zero |-> FALSE, dir |-> None]
    IN IF i \notin DOMAIN ff.cost_grid
       THEN [ff |-> ff, panic |-> TRUE, obs |-> obs0]
       ELSE
         LET cost == ff.cost_grid[i][1]
             line_of_sight == cost = get_minimum_cost_at_index(ff, i)
             obs1 == [obs0 EXCEPT !.cost = cost, !.line_of_sight = line_of_sight,
                                  !.memo = ff.field[i]]
         IN IF (BeyondThreshold(cfg, cost) \/ ~line_of_sight) /\ ff.field[i] # None
            THEN [ff |-> ff, panic |-> FALSE,
                  obs |-> [obs1 EXCEPT !.early = TRUE, !.dir = ff.field[i]]]
            ELSE
              LET recompute == \/ ff.field[i] = None
                               \/ ff.target_changed
                               \/ IsReferenceAngle(ff.field[i][1])
                  acc == IF recompute
                         THEN ScanNeighbors(ff, i, 1,
                                [min |-> U32Max, mask |-> {}, f |-> ff.field[i]])
                         ELSE [min |-> U32Max, mask |-> {}, f |-> ff.field[i]]
                  obs2 == [obs1 EXCEPT !.recomputed = recompute]
              IN IF SmoothingApplies(ff, i, acc.f, acc.mask, line_of_sight, smooth)
                 THEN
                   LET v == SmoothVector(ff, i, cost)
                       d == Dir2FromXY(v[1], v[2])
                   IN IF d = None
                      THEN [ff |-> [ff EXCEPT !.field = Put(@, i, acc.f)], panic |-> TRUE,
                            obs |-> [obs2 EXCEPT !.smoothed = TRUE, !.zero = TRUE]]
                      ELSE [ff |-> [ff EXCEPT !.field = Put(@, i, d)], panic |-> FALSE,
                            obs |-> [obs2 EXCEPT !.smoothed = TRUE, !.dir = d]]
                 ELSE [ff |-> [ff EXCEPT !.field = Put(@, i, acc.f)], panic |-> FALSE,
                       obs |-> [obs2 EXCEPT !.dir =
                                  IF acc.f = None THEN Some(NORTH) ELSE acc.f]]

----------------------------------------------------------------------------
(* The maps, the frame rates and the places the player can stand *)

\* the w x h map whose wall tiles (WALL_BITMASK) are the cells in walls
MapOf(w, h, walls) ==
    [width |-> w, height |-> h,
     storage |-> [i \in 0..(w * h - 1) |-> IF i \in walls THEN WALL_BITMASK ELSE {}]]

\* maps whose walls lie among the first n tiles
WalledMaps(w, h, n) ==
    {MapOf(w, h, walls) : walls \in SUBSET (0..(Min(n, w * h) - 1))}

\* maps with at most n walls, anywhere
SparseMaps(w, h, n) ==
    {MapOf(w, h, walls) : walls \in {s \in SUBSET (0..(w * h - 1)) : Cardinality(s) <= n}}

OpenMaps(w, h) == {MapOf(w, h, {})}

DefaultConfig ==
    [flowfield_smooth |-> TRUE,
     flow_cost_threshold |-> DefaultFlowCostThreshold,
     seconds_per_iter |-> DefaultSecondsPerIterCs,
     max_chasers |-> DefaultMaxChasers]

\* Events<SpawnerTriggerEvent>: the spawner ids of the events sent in the
\* previous frame (prev) and in this frame (cur) that update_spawners'
\* EventReader has not read
NoEvents == [prev |-> {}, cur |-> {}]

\* the systems of Update that the model follows
Systems == {"handle_trigger_event", "update_spawners", "remove_chasers",
            "reset_player", "ui_config"}

\* between two frames
Idle == [running |-> FALSE, ran |-> {}, synced |-> FALSE,
         delta |-> 0, key_r |-> FALSE, hits |-> {}]

\* frame rates at which a map of `tiles` tiles gets, with the default
\* seconds_per_iter, a budget of 2.5 * tiles, 2, 1 and 0 pops per tick
FrameRates(tiles) == {1, tiles, 2 * tiles, 3 * tiles}

\* the origins of all tiles of the map, in half tiles
TileOrigins ==
    {<<2 * x, 2 * y>> : x \in 0..(tilemap.width - 1), y \in 0..(tilemap.height - 1)}

\* the origins of the tiles of the middle row
MiddleRow == {<<2 * x, 2 * (tilemap.height \div 2)>> : x \in 0..(tilemap.width - 1)}

\* every half-tile position world_to_tile_coords can return
HalfTileSpots ==
    {<<x, y>> : x \in 0..(2 * (tilemap.width - 1)), y \in 0..(2 * (tilemap.height - 1))}

\* those on the diagonal through the origin: tile corners and tile centres
DiagonalSpots == {p \in HalfTileSpots : p[1] = p[2]}

\* Flowfield::default()
DefaultFlowfield ==
    [target |-> <<0, 0>>, transient_target |-> <<0, 0>>, target_changed |-> FALSE,
     cost_grid |-> << >>, field |-> << >>, heap |-> {}, width |-> 0, height |-> 0]

NoCall ==
    [called |-> FALSE, index |-> 0, smooth |-> FALSE, threshold |-> 0,
     cost |-> 0, line_of_sight |-> FALSE, memo |-> None,
     early |-> FALSE, recomputed |-> FALSE, smoothed |-> FALSE,
     zero |-> FALSE, dir |-> None]

\* a level without spawner objects, between frames
\* nothing has been compared or hashed
NoVerdict == [op |-> "none"]

\* no wall layer is being loaded
NoOutline == [phase |-> "none"]

NoShapes ==
    /\ shapes = [kind |-> "none", of |-> << >>]
    /\ verdict = NoVerdict
    /\ outline = NoOutline

NoSpawners ==
    /\ spawners = << >>
    /\ chasers = << >>
    /\ events = NoEvents
    /\ commands = << >>
    /\ sched = Idle
    /\ spawned = {}

\* the state after App::build and load_tilemap on one of `maps`
InitOn(maps) ==
    /\ \E m \in maps :
         /\ tilemap = [width |-> m.width, height |-> m.height]
         /\ storage = m.storage
    /\ config = DefaultConfig
    /\ fps \in FrameRates(tilemap.width * tilemap.height)
    /\ flowfield = DefaultFlowfield
    /\ last = NoCall
    /\ panicked = FALSE
    /\ NoSpawners
    /\ NoShapes

----------------------------------------------------------------------------
(* Spawners (src/src/spawner.rs) and reset_player (src/src/player.rs)      *)
(*                                                                         *)
(* Times are whole multiples of one time unit.  A Timer is the pair of its *)
(* duration and its elapsed time; all timers are TimerMode::Repeating.     *)
(* A Chaser entity is its birth stamp: of two chasers the one with the     *)
(* smaller stamp was spawned earlier; the stamps of the live chasers are   *)
(* kept at 1..n.  `chasers` lists them in table order: spawning appends a  *)
(* row and despawning swaps the last row into the freed one.               *)

\* Timer::from_seconds(duration, TimerMode::Repeating)
NewTimer(duration) == [duration |-> duration, elapsed |-> 0]

\* Timer::tick(delta) followed by Timer::just_finished()
TimerTick(timer, delta) ==
    LET e == timer.elapsed + delta
    IN IF e >= timer.duration
       THEN [timer |-> [timer EXCEPT !.elapsed = IF timer.duration = 0 THEN 0
                                                  ELSE e % timer.duration],
             just_finished |-> TRUE]
       ELSE [timer |-> [timer EXCEPT !.elapsed = e], just_finished |-> FALSE]

\* Spawner::from_object for the custom properties props
from_object(props) ==
    [active |-> props.active_default,
     active_default |-> props.active_default,
     num_spawn |-> props.num_spawn,
     delay |-> props.delay,
     immediate |-> props.immediate,
     interval |-> props.interval,
     repeats |-> props.repeats,
     count |-> 0,
     timer |-> NewTimer(IF props.immediate THEN 0 ELSE props.delay)]

ActivatesAlways(sp, id, spawner_ids) == ~sp.active /\ id \in spawner_ids

\* `!spawner.active && spawner.count < spawner.num_spawn
\*  && spawner_ids.contains(&spawner.id)`
Activates(sp, id, spawner_ids) ==
    ~sp.active /\ sp.count < sp.num_spawn /\ id \in spawner_ids

RestartsNever(sp) == FALSE

\* `if spawner.repeats` once the count has reached num_spawn
Restarts(sp) == sp.repeats

\* the body of update_spawners' loop for the spawner sp with object id `id`:
\* the spawner afterwards, whether it spawned a chaser and whether
\* Duration::from_secs_f32 panicked on a negative duration
UpdateSpawner(sp, id, spawner_ids, delta) ==
    LET act == IF Activates(sp, id, spawner_ids) THEN [sp EXCEPT !.active = TRUE] ELSE sp
    IN IF ~act.active
       THEN [spawner |-> act, spawn |-> FALSE, panic |-> FALSE]
       ELSE
         LET tk == TimerTick(act.timer, delta)
             s1 == [act EXCEPT !.timer = tk.timer]
             cnt == s1.count + 1
         IN IF ~tk.just_finished
            THEN [spawner |-> s1, spawn |-> FALSE, panic |-> FALSE]
            ELSE IF cnt = s1.num_spawn
            THEN IF Restarts(s1)
                 THEN [spawner |-> [s1 EXCEPT
                           !.count = 0,
                           !.timer = [duration |-> Max(s1.delay - tk.timer.elapsed, 0),
                                      elapsed |-> tk.timer.elapsed]],
                       spawn |-> TRUE, panic |-> FALSE]
                 ELSE [spawner |-> [s1 EXCEPT !.count = cnt, !.active = FALSE],
                       spawn |-> TRUE, panic |-> FALSE]
            ELSE IF s1.interval - tk.timer.elapsed < 0
            THEN [spawner |-> [s1 EXCEPT !.count = cnt], spawn |-> FALSE, panic |-> TRUE]
            ELSE [spawner |-> [s1 EXCEPT
                      !.count = cnt,
                      !.timer = [duration |-> s1.interval - tk.timer.elapsed,
                                 elapsed |-> tk.timer.elapsed]],
                  spawn |-> TRUE, panic |-> FALSE]

\* `for (mut spawner, transform) in q_spawners.iter_mut()` from the spawner
\* with id k on; acc = [spawners, spawned, panic]
RECURSIVE UpdateSpawnersFrom(_, _, _, _)
UpdateSpawnersFrom(acc, k, spawner_ids, delta) ==
    IF k \notin DOMAIN acc.spawners \/ acc.panic THEN acc
    ELSE CHOOSE r \in
           {UpdateSpawnersFrom(
                [spawners |-> Put(acc.spawners, k, u.spawner),
                 spawned |-> IF u.spawn THEN acc.spawned \cup {k} ELSE acc.spawned,
                 panic |-> u.panic],
                k + 1, spawner_ids, delta) :
              u \in {UpdateSpawner(acc.spawners[k], k, spawner_ids, delta)}} : TRUE

SkipsNever(chs, cfg) == FALSE

\* `if chasers.iter().count() >= config.max_chasers { return; }`
AtCapacity(chs, cfg) == Len(chs) >= cfg.max_chasers

\* update_spawners: the spawners and unread events afterwards, the spawners
\* that queued a spawn command, and whether the system panicked
update_spawners(sps, chs, evs, cfg, delta) ==
    IF AtCapacity(chs, cfg)
    THEN [spawners |-> sps, events |-> evs, spawned |-> {}, panic |-> FALSE]
    ELSE LET r == UpdateSpawnersFrom([spawners |-> sps, spawned |-> {}, panic |-> FALSE],
                                     1, evs.prev \cup evs.cur, delta)
         IN [spawners |-> r.spawners, events |-> NoEvents,
             spawned |-> r.spawned, panic |-> r.panic]

\* remove_chasers: the entities it queues for despawning
remove_chasers(chs, cfg) ==
    LET delete_count == Len(chs) - cfg.max_chasers
    IN [i \in 1..Max(0, Min(delete_count, Len(chs))) |-> chs[i]]

ResetKeepsCount(sp) ==
    [sp EXCEPT !.timer = IF sp.immediate THEN NewTimer(0) ELSE NewTimer(sp.delay),
               !.active = sp.active_default]

\* the spawner loop of reset_player
ResetSpawner(sp) ==
    [sp EXCEPT !.timer = IF sp.immediate THEN NewTimer(0) ELSE NewTimer(sp.delay),
               !.count = 0,
               !.active = sp.active_default]

SetMax(S) == CHOOSE a \in S : \A b \in S : a >= b

\* one deferred command applied to the table rows: commands.spawn appends an
\* entity younger than all others, despawn_recursive swap-removes the entity
\* if it is still alive
ApplyCommand(rows, cmd) ==
    IF cmd.op = "spawn"
    THEN Append(rows, 1 + SetMax({0} \cup {rows[i] : i \in DOMAIN rows}))
    ELSE IF \E i \in DOMAIN rows : rows[i] = cmd.entity
    THEN LET i == CHOOSE j \in DOMAIN rows : rows[j] = cmd.entity
             n == Len(rows)
         IN [j \in 1..(n - 1) |-> IF j = i THEN rows[n] ELSE rows[j]]
    ELSE rows

\* the commands cmds applied in order from the k-th on
RECURSIVE ApplyFrom(_, _, _)
ApplyFrom(rows, cmds, k) ==
    IF k > Len(cmds) THEN rows
    ELSE CHOOSE r \in {ApplyFrom(next, cmds, k + 1) :
                         next \in {ApplyCommand(rows, cmds[k])}} : TRUE

\* the birth stamps renumbered 1..n in the same order of age
Renumber(rows) ==
    [i \in DOMAIN rows |-> Cardinality({j \in DOMAIN rows : rows[j] <= rows[i]})]

\* a sync point: every queued command applied
apply_deferred(rows, cmds) == Renumber(ApplyFrom(rows, cmds, 1))

----------------------------------------------------------------------------
(* Actions *)

\* PostStartup: setup_flowfield, once
Setup ==
    /\ ~panicked
    /\ flowfield.width = 0
    /\ flowfield' = setup_flowfield(flowfield, tilemap)
    /\ UNCHANGED <<tilemap, storage, config, fps, player, last, panicked>>
    /\ UNCHANGED <<spawnVars, geomVars>>

\* one frame's (update_target, update_cost).chain() with the player at p
Tick(p) ==
    /\ ~panicked
    /\ flowfield.width > 0
    /\ player' = p
    /\ flowfield' \in update_cost(update_target(flowfield, tilemap, p), config, fps)
    /\ UNCHANGED <<tilemap, storage, config, fps, last, panicked>>
    /\ UNCHANGED <<spawnVars, geomVars>>

\* apply_force / draw_flowfield: one get_flow_at_tile(tile, storage, config.flowfield_smooth)
Query(tile) ==
    /\ ~panicked
    /\ flowfield.width > 0
    /\ LET r == get_flow_at_tile(flowfield, config, tile, config.flowfield_smooth)
       IN /\ flowfield' = r.ff
          /\ last' = r.obs
          /\ panicked' = r.panic
    /\ UNCHANGED <<tilemap, storage, config, fps, player>>
    /\ UNCHANGED <<spawnVars, geomVars>>

\* the same two systems run on a Flowfield that setup_flowfield has not sized
EarlyTick(p) ==
    /\ ~panicked
    /\ flowfield.width = 0
    /\ player' = p
    /\ flowfield' \in update_cost(update_target(flowfield, tilemap, p), config, fps)
    /\ UNCHANGED <<tilemap, storage, config, fps, last, panicked>>
    /\ UNCHANGED <<spawnVars, geomVars>>

\* get_flow_at_tile called on a Flowfield that setup_flowfield has not sized
EarlyQuery(tile) ==
    /\ ~panicked
    /\ flowfield.width = 0
    /\ LET r == get_flow_at_tile(flowfield, config, tile, config.flowfield_smooth)
       IN /\ flowfield' = r.ff
          /\ last' = r.obs
          /\ panicked' = r.panic
    /\ UNCHANGED <<tilemap, storage, config, fps, player>>
    /\ UNCHANGED <<spawnVars, geomVars>>

\* ui_config: the inspector window edits the Config resource
ui_config ==
    /\ ~panicked
    /\ \E s \in BOOLEAN, t \in {DefaultFlowCostThreshold, LowCostThreshold} :
         /\ config' = [config EXCEPT !.flowfield_smooth = s, !.flow_cost_threshold = t]
         /\ config' # config
    /\ UNCHANGED <<tilemap, storage, fps, player, flowfield, last, panicked>>
    /\ UNCHANGED <<spawnVars, geomVars>>

\* the n-fold command sequence of `commands.spawn(..)`
SpawnCommands(n) == [i \in 1..n |-> [op |-> "spawn", entity |-> 0]]

\* `commands.entity(entity).despawn_recursive()` for each entity of rows
DespawnCommands(rows) == [i \in DOMAIN rows |-> [op |-> "despawn", entity |-> rows[i]]]

\* the system `name` of Update has run in this frame
Ran(name) == [sched EXCEPT !.ran = @ \cup {name}]

\* a frame begins: the frame's inputs are the time since the last frame, whether
\* KeyR was just pressed and the spawners whose trigger sensors report
\* CollisionEvent::Started; First's event_update_system ages the events
BeginFrame(delta, key_r, hits) ==
    /\ ~panicked
    /\ ~sched.running
    /\ sched' = [running |-> TRUE, ran |-> {}, synced |-> FALSE,
                 delta |-> delta, key_r |-> key_r, hits |-> hits]
    /\ events' = [prev |-> events.cur, cur |-> {}]
    /\ spawned' = {}
    /\ UNCHANGED <<spawners, chasers, commands>>
    /\ UNCHANGED <<flowVars, geomVars>>

\* handle_trigger_event
HandleTriggerEvent ==
    /\ ~panicked
    /\ sched.running /\ "handle_trigger_event" \notin sched.ran
    /\ events' = [events EXCEPT !.cur = @ \cup sched.hits]
    /\ sched' = Ran("handle_trigger_event")
    /\ UNCHANGED <<spawners, chasers, commands, spawned>>
    /\ UNCHANGED <<flowVars, geomVars>>

\* update_spawners
UpdateSpawners ==
    /\ ~panicked
    /\ sched.running /\ "update_spawners" \notin sched.ran
    /\ LET r == update_spawners(spawners, chasers, events, config, sched.delta)
       IN /\ spawners' = r.spawners
          /\ events' = r.events
          /\ spawned' = r.spawned
          /\ commands' = commands \o SpawnCommands(Cardinality(r.spawned))
          /\ panicked' = r.panic
    /\ sched' = Ran("update_spawners")
    /\ UNCHANGED <<chasers>>
    /\ UNCHANGED <<tilemap, storage, config, fps, player, flowfield, last, geomVars>>

\* the sync point between update_spawners and remove_chasers (.chain())
SyncPoint ==
    /\ ~panicked
    /\ sched.running /\ "update_spawners" \in sched.ran /\ ~sched.synced
    /\ chasers' = apply_deferred(chasers, commands)
    /\ commands' = << >>
    /\ sched' = [sched EXCEPT !.synced = TRUE]
    /\ UNCHANGED <<spawners, events, spawned>>
    /\ UNCHANGED <<flowVars, geomVars>>

\* remove_chasers
RemoveChasers ==
    /\ ~panicked
    /\ sched.running /\ sched.synced /\ "remove_chasers" \notin sched.ran
    /\ commands' = commands \o DespawnCommands(remove_chasers(chasers, config))
    /\ sched' = Ran("remove_chasers")
    /\ UNCHANGED <<spawners, chasers, events, spawned>>
    /\ UNCHANGED <<flowVars, geomVars>>

\* reset_player: the player goes back to the PlayerSpawn, where the model
\* keeps it
ResetPlayer ==
    /\ ~panicked
    /\ sched.running /\ "reset_player" \notin sched.ran
    /\ IF sched.key_r
       THEN /\ commands' = commands \o DespawnCommands(chasers)
            /\ spawners' = [id \in DOMAIN spawners |-> ResetSpawner(spawners[id])]
       ELSE UNCHANGED <<commands, spawners>>
    /\ sched' = Ran("reset_player")
    /\ UNCHANGED <<chasers, events, spawned>>
    /\ UNCHANGED <<flowVars, geomVars>>

\* ui_config: the inspector window edits Config.max_chasers
ui_config_max_chasers ==
    /\ ~panicked
    /\ sched.running /\ "ui_config" \notin sched.ran
    /\ \E m \in 0..CapMax :
         /\ m # config.max_chasers
         /\ config' = [config EXCEPT !.max_chasers = m]
    /\ sched' = Ran("ui_config")
    /\ UNCHANGED <<spawners, chasers, events, commands, spawned>>
    /\ UNCHANGED <<tilemap, storage, fps, player, flowfield, last, panicked, geomVars>>

\* the end of Update: the last sync point of the schedule
EndFrame ==
    /\ ~panicked
    /\ sched.running /\ sched.synced
    /\ {"handle_trigger_event", "update_spawners", "remove_chasers", "reset_player"}
         \subseteq sched.ran
    /\ chasers' = apply_deferred(chasers, commands)
    /\ commands' = << >>
    /\ sched' = Idle
    /\ UNCHANGED <<spawners, events, spawned>>
    /\ UNCHANGED <<flowVars, geomVars>>

----------------------------------------------------------------------------
(* Spec: the cost field on small walled maps, the player moving along the  *)
(* middle row                                                              *)

Init ==
    /\ InitOn(WalledMaps(GridW, GridH, WallCells))
    /\ player \in MiddleRow

Next ==
    \/ Setup
    \/ \E p \in MiddleRow : Tick(p)

Spec == Init /\ [][Next]_vars

(* SpecOpen: a wavefront on an open map, the player standing still *)

InitOpen ==
    /\ InitOn(OpenMaps(OpenW, OpenH))
    /\ player \in TileOrigins

NextStill ==
    \/ Setup
    \/ Tick(player)

SpecOpen == InitOpen /\ [][NextStill]_vars

(* SpecLong: a wavefront on a long map with few walls, the player standing *)
(* still in the first column                                               *)

InitLong ==
    /\ InitOn(SparseMaps(LongW, LongH, LongWalls))
    /\ player \in {p \in TileOrigins : p[1] = 0}

SpecLong == InitLong /\ [][NextStill]_vars

(* SpecDrain: as Spec, but the player stands still and frames keep coming *)

SpecDrain == Init /\ [][NextStill]_vars /\ WF_vars(NextStill)

(* SpecFlow: flow queries on a small map while the player moves by half    *)
(* tiles along the diagonal and the inspector edits the configuration      *)

\* at one frame per second a wavefront drains within the tick that starts it
InitFlow ==
    /\ InitOn(WalledMaps(FlowW, FlowH, FlowWalls))
    /\ fps = 1
    /\ player \in DiagonalSpots

NextFlow ==
    \/ Setup
    \/ \E p \in DiagonalSpots : Tick(p)
    \/ \E tile \in TileOrigins : Query(tile)
    \/ ui_config

SpecFlow == InitFlow /\ [][NextFlow]_vars

(* SpecEarly: the flowfield systems and queries before setup_flowfield     *)

NextEarly ==
    \/ \E p \in MiddleRow : EarlyTick(p)
    \/ \E tile \in TileOrigins : EarlyQuery(tile)

SpecEarly == Init /\ [][NextEarly]_vars

(* SpecSpawn: one level's spawners over frames with triggers and resets,  *)
(* the population cap fixed at load time                                   *)

\* the custom properties a spawner object can carry
SpawnerProps ==
    [active_default : BOOLEAN, num_spawn : 1..MaxNumSpawn, delay : 0..MaxDelay,
     immediate : BOOLEAN, interval : 0..MaxInterval, repeats : BOOLEAN]

\* the state after App::build and load_tilemap on a level whose spawner
\* objects carry the properties props[1], props[2], ..., with the population
\* cap max_chasers
InitSpawners(props, max_chasers) ==
    /\ \E m \in OpenMaps(1, 1) :
         /\ tilemap = [width |-> m.width, height |-> m.height]
         /\ storage = m.storage
    /\ config = [DefaultConfig EXCEPT !.max_chasers = max_chasers]
    /\ fps = 1
    /\ player = <<0, 0>>
    /\ flowfield = DefaultFlowfield
    /\ last = NoCall
    /\ panicked = FALSE
    /\ spawners = [id \in DOMAIN props |-> from_object(props[id])]
    /\ chasers = << >>
    /\ events = NoEvents
    /\ commands = << >>
    /\ sched = Idle
    /\ spawned = {}
    /\ NoShapes

InitSpawn ==
    \E props \in [1..NumSpawners -> SpawnerProps], max_chasers \in 0..MaxChasers :
        InitSpawners(props, max_chasers)

Frame ==
    \/ HandleTriggerEvent
    \/ UpdateSpawners
    \/ SyncPoint
    \/ RemoveChasers
    \/ ResetPlayer
    \/ EndFrame

NextSpawn ==
    \/ \E delta \in 1..MaxDelta, key_r \in BOOLEAN, hits \in SUBSET DOMAIN spawners :
         BeginFrame(delta, key_r, hits)
    \/ Frame

SpecSpawn == InitSpawn /\ [][NextSpawn]_vars

(* SpecCap: one spawner that spawns a chaser in every frame while the       *)
(* inspector window edits max_chasers                                      *)

EveryFrame ==
    [active_default |-> TRUE, num_spawn |-> 1, delay |-> 0,
     immediate |-> TRUE, interval |-> 0, repeats |-> TRUE]

InitCap == \E max_chasers \in 0..CapMax : InitSpawners(<<EveryFrame>>, max_chasers)

NextCap ==
    \/ \E key_r \in BOOLEAN, hits \in SUBSET DOMAIN spawners :
         BeginFrame(1, key_r, hits)
    \/ Frame
    \/ ui_config_max_chasers

SpecCap == InitCap /\ [][NextCap]_vars

(* SpecSpawnFair: as SpecSpawn, and the frame loop keeps running *)

SpecSpawnFair == InitSpawn /\ [][NextSpawn]_vars /\ WF_vars(NextSpawn)

----------------------------------------------------------------------------
(* Vocabulary of the claims *)

Cells == DOMAIN flowfield.cost_grid
CostAt(i) == flowfield.cost_grid[i][1]
VisitedAt(i) == flowfield.cost_grid[i][2]
IsWall(i) == storage[i] # {}
TargetCell == flowfield.transient_target[1] + flowfield.transient_target[2] * flowfield.width

\* a wavefront has been started and its frontier has emptied
Drained ==
    /\ flowfield.width > 0
    /\ flowfield.heap = {}
    /\ ~flowfield.target_changed
    /\ TargetCell \in Cells
    /\ VisitedAt(TargetCell)

\* the cell (x + dx, y + dy), or -1 when it is off the map
CellAt(x, y) ==
    IF x < 0 \/ x >= tilemap.width \/ y < 0 \/ y >= tilemap.height THEN -1
    ELSE x + y * tilemap.width

WallAt(x, y) == CellAt(x, y) # -1 /\ IsWall(CellAt(x, y))

\* the reference moves: from cell i by (dx, dy) onto an open cell of the map,
\* a diagonal one only between two open (or off-map) orthogonal neighbours
RefMoves(i) ==
    LET x == i % tilemap.width
        y == i \div tilemap.width
    IN {[to |-> CellAt(x + nb.dx, y + nb.dy), step |-> nb.step_cost] :
          nb \in {c \in {CostNeighbors[k] : k \in 1..Len(CostNeighbors)} :
                    /\ CellAt(x + c.dx, y + c.dy) # -1
                    /\ ~WallAt(x + c.dx, y + c.dy)
                    /\ (c.dx # 0 /\ c.dy # 0) =>
                         (~WallAt(x + c.dx, y) /\ ~WallAt(x, y + c.dy))}}

SetMin(S) == CHOOSE a \in S : \A b \in S : a <= b

\* one round of relaxation of the distances d over all reference moves
RefRelax(d) ==
    [n \in DOMAIN d |->
       SetMin({d[n]} \cup UNION {{d[i] + m.step : m \in {mm \in RefMoves(i) : mm.to = n}} :
                                 i \in {j \in DOMAIN d : d[j] # U32Max}})]

RECURSIVE RefFix(_, _)
RefFix(d, fuel) ==
    IF fuel = 0 THEN d
    ELSE CHOOSE r \in {IF e = d THEN d ELSE RefFix(e, fuel - 1) : e \in {RefRelax(d)}} : TRUE

\* cheapest-path costs from cell `start` (brute force)
Dijkstra(start) ==
    RefFix([n \in 0..(tilemap.width * tilemap.height - 1) |->
              IF n = start THEN 0 ELSE U32Max],
           tilemap.width * tilemap.height)

----------------------------------------------------------------------------
(* Claims *)

\* C1: once a wavefront from an in-bounds non-wall target tile has drained,
\* every cell reachable from the transient target holds the cheapest-path cost
\* of the brute-force reference.  The code breaks it: see LongW x LongH.
C1_CostsAreCheapest ==
    (Drained /\ ~IsWall(TargetCell)) =>
        LET ref == Dijkstra(TargetCell)
        IN \A i \in Cells : ref[i] # U32Max => CostAt(i) = ref[i]

\* C1's case: a drained wavefront on a walled map that reached other cells
C1_Witness ==
    /\ Drained /\ ~IsWall(TargetCell)
    /\ \E i \in Cells : IsWall(i)
    /\ \E i \in Cells : i # TargetCell /\ Dijkstra(TargetCell)[i] # U32Max

\* C2: on a map without walls, once the wavefront has drained every cell's
\* cost is its octile distance to the transient target, as
\* get_minimum_cost_at_index computes it, whatever the tie-breaking order.
C2_OpenCostsAreOctile ==
    (Drained /\ \A i \in Cells : ~IsWall(i)) =>
        \A i \in Cells : CostAt(i) = get_minimum_cost_at_index(flowfield, i)

\* C2's case: target (2,2), cost 28 at (4,4)
C2_Witness ==
    /\ Drained /\ \A i \in Cells : ~IsWall(i)
    /\ flowfield.transient_target = <<2, 2>>
    /\ CellAt(4, 4) # -1
    /\ CostAt(CellAt(4, 4)) = 28

\* the diagonal neighbours n of cell i that are on the map, open, unvisited
\* and lie behind a corner: both cells orthogonally adjacent to the step are
\* walls
CornerNeighbors(i) ==
    LET x == i % tilemap.width
        y == i \div tilemap.width
    IN {CellAt(x + nb.dx, y + nb.dy) :
          nb \in {c \in {CostNeighbors[k] : k \in 1..Len(CostNeighbors)} :
                    /\ c.dx # 0 /\ c.dy # 0
                    /\ CellAt(x + c.dx, y + c.dy) # -1
                    /\ ~WallAt(x + c.dx, y + c.dy)
                    /\ ~VisitedAt(CellAt(x + c.dx, y + c.dy))
                    /\ WallAt(x + c.dx, y) /\ WallAt(x, y + c.dy)}}

\* C3: expanding a popped cell never costs a diagonal neighbour behind a
\* corner (both orthogonally adjacent cells walls): the neighbour keeps its
\* cost, stays unvisited and is not pushed.
C3_NoCornerCutting ==
    flowfield.width > 0 =>
        \A nd \in MinNodes(flowfield.heap) :
            \A n \in CornerNeighbors(nd.index) :
                LET after == Expand(flowfield, nd)
                IN /\ after.cost_grid[n] = flowfield.cost_grid[n]
                   /\ \A o \in after.heap : o.index # n

\* C3's case: a cell about to be expanded next to such a corner
C3_Witness ==
    /\ flowfield.width > 0
    /\ \E nd \in MinNodes(flowfield.heap) : CornerNeighbors(nd.index) # {}

\* C4: while the frontier is non-empty no step changes the transient target,
\* wherever the live target moves.
C4_TransientFixedWhilePropagating ==
    [][flowfield.heap # {} =>
         flowfield'.transient_target = flowfield.transient_target]_vars

\* C4's case: the frontier is non-empty and the live target has left the
\* transient target's tile
C4_Witness ==
    /\ flowfield.heap # {}
    /\ AsIVec2(flowfield.target) # flowfield.transient_target
    /\ \E nd \in flowfield.heap : nd.cost > 0

\* C5: with the player standing still and frames at a fixed rate, a
\* propagating wavefront eventually drains.  The code breaks it when the
\* per-tick budget truncates to 0.
C5_EventuallyDrains ==
    (flowfield.heap # {}) ~> (flowfield.heap = {} /\ ~flowfield.target_changed)

\* C6: a cell whose cost is the infinite sentinel has visited = true (it is a
\* wall or a cell the wavefront has not reached).  The code breaks it from
\* setup_flowfield on.
C6_InfiniteImpliesVisited ==
    \A i \in Cells : CostAt(i) = U32Max => VisitedAt(i)

\* the eight compass directions
CompassDirs == {NEIGHBORS[k].dir : k \in 1..Len(NEIGHBORS)}
IsCompass(f) == f # None /\ f[1] \in CompassDirs

C8_ZeroVectorFallsBack ==
    (last.called /\ last.zero) => (~panicked /\ last.dir # None)

\* C9: a call returns the memoized direction without recomputation exactly
\* when the cell's cost exceeds Config.flow_cost_threshold or the cell has no
\* line of sight (and a direction is memoized).  The code breaks it: it
\* compares with the literal 150.
C9_EarlyReturnFollowsConfig ==
    (last.called /\ ~panicked) =>
        (last.early <=>
            ((last.cost > last.threshold \/ ~last.line_of_sight) /\ last.memo # None))

\* C10: a call made while smoothing is off returns one of the 8 compass
\* directions.  The code breaks it for a cell smoothed by an earlier call.
C10_SmoothingOffIsCompass ==
    (last.called /\ ~panicked /\ ~last.smooth) => IsCompass(last.dir)

\* C11: on a flowfield that has not been sized (width = height = 0, empty
\* cost grid and field) update_cost changes nothing, get_index_at_tile is
\* absent for every tile and get_flow_at_tile does not fail.  The code breaks
\* it: get_flow_at_tile indexes the empty cost grid and panics.
C11_UnsizedQueriesAreNoOps ==
    (flowfield.width = 0 /\ flowfield.height = 0) =>
        /\ update_cost(flowfield, config, fps) = {flowfield}
        /\ \A tile \in TileOrigins : get_index_at_tile(flowfield, tile) = None
        /\ ~panicked

\* this step is the run of the system `name`
IsStep(name) == name \notin sched.ran /\ name \in sched'.ran

\* this step is reset_player with KeyR just pressed
IsReset == IsStep("reset_player") /\ sched.key_r

\* the spawner id has spawned all its chasers and does not repeat
Exhausted(id) ==
    /\ ~spawners[id].repeats
    /\ ~spawners[id].active
    /\ spawners[id].count = spawners[id].num_spawn

\* C12: a non-repeating spawner whose count reaches num_spawn is inactive
\* after that same update; from then on, until reset_player processes a
\* reset, no step changes it (no trigger event re-activates it) and no
\* update_spawners spawns from it.
C12_ExhaustedStaysOff ==
    [][\A id \in DOMAIN spawners :
         /\ (/\ ~spawners[id].repeats
             /\ spawners[id].count # spawners[id].num_spawn
             /\ spawners'[id].count = spawners'[id].num_spawn)
            => ~spawners'[id].active
         /\ (Exhausted(id) /\ ~IsReset)
            => /\ spawners'[id] = spawners[id]
               /\ IsStep("update_spawners") => id \notin spawned']_vars

\* C12's case: update_spawners has read a trigger event for an exhausted
\* spawner while the population was below the cap
C12_Witness ==
    \E id \in DOMAIN spawners :
        /\ Exhausted(id)
        /\ sched.running
        /\ id \in sched.hits
        /\ {"handle_trigger_event", "update_spawners"} \subseteq sched.ran
        /\ events = NoEvents
        /\ ~AtCapacity(chasers, config)
        /\ id \notin spawned

\* the repeating spawner id is active and this frame's update_spawners is
\* still to run
RepeatingDue(id) ==
    /\ spawners[id].repeats /\ spawners[id].active
    /\ sched.running /\ "update_spawners" \notin sched.ran

\* C13: when the count of a repeating spawner reaches num_spawn the same
\* update resets it to 0 and leaves the spawner active; and an active
\* repeating spawner spawns again and again while frames keep coming, unless
\* the population is at the cap (or the reset key re-arms the timers, or the
\* process has panicked and frames have stopped).
C13_RepeatingKeepsSpawning ==
    /\ [][\A id \in DOMAIN spawners :
            (/\ spawners[id].repeats
             /\ IsStep("update_spawners")
             /\ id \in spawned'
             /\ spawners[id].count + 1 = spawners[id].num_spawn)
            => (spawners'[id].count = 0 /\ spawners'[id].active)]_vars
    /\ \A id \in 1..NumSpawners :
         RepeatingDue(id) ~>
            (\/ id \in spawned
             \/ AtCapacity(chasers, config)
             \/ (sched.key_r /\ "reset_player" \in sched.ran)
             \/ panicked)

\* C13's case: a repeating spawner has just completed a cycle (count back at
\* 0 after a spawn) and is still active
C13_Witness ==
    \E id \in DOMAIN spawners :
        /\ spawners[id].repeats /\ spawners[id].active
        /\ id \in spawned
        /\ spawners[id].count = 0
        /\ Len(chasers) > 0
        /\ ~AtCapacity(chasers, config)

\* the trigger events an update_spawners run now would find unread
Unread == events.prev \cup events.cur

\* C14: a trigger event for an inactive spawner whose count is below
\* num_spawn leaves the spawner active after the update_spawners run that
\* follows the event, whatever the number of live chasers.
C14_TriggerActivates ==
    [][\A id \in DOMAIN spawners :
         (/\ IsStep("update_spawners")
          /\ id \in Unread
          /\ ~spawners[id].active
          /\ spawners[id].count < spawners[id].num_spawn)
         => spawners'[id].active]_vars

\* the step that ends a frame in which reset_player saw KeyR just pressed
EndsResetFrame == sched.running /\ sched.key_r /\ ~sched'.running

\* C15: at the end of a frame in which the reset was processed no chaser is
\* alive, in whichever order reset_player and update_spawners ran.
C15_ResetLeavesNoChaser ==
    [][EndsResetFrame => chasers' = << >>]_vars

\* the custom properties the spawner sp was loaded with
PropsOf(sp) ==
    [active_default |-> sp.active_default, num_spawn |-> sp.num_spawn,
     delay |-> sp.delay, immediate |-> sp.immediate,
     interval |-> sp.interval, repeats |-> sp.repeats]

Oldest(rows, n) ==
    {rows[i] : i \in {k \in DOMAIN rows :
                        Cardinality({j \in DOMAIN rows : rows[j] < rows[k]}) < n}}

\* the entities a step queues for despawning
Despawned ==
    {commands'[i].entity : i \in {k \in (Len(commands) + 1)..Len(commands') :
                                    commands'[k].op = "despawn"}}

\* C17: remove_chasers despawns nothing while the live count is within
\* max_chasers, and otherwise exactly the live count - max_chasers chasers
\* that were spawned first.
C17_RemovesTheOldest ==
    [][IsStep("remove_chasers") =>
         Despawned = Oldest(chasers, Max(0, Len(chasers) - config.max_chasers))]_vars

----------------------------------------------------------------------------
(* Points and segments. A coordinate is an integer number of thousandths;  *)
(* a Point is <<x, y>>, a Segment is [a |-> Point, b |-> Point], an IVec2  *)
(* is <<x, y>>. A hash is modelled by the value handed to the Hasher.      *)
(* f32 rounding, NaN and the saturation of `as i32` are outside the model. *)

\* PRECISION = 0.01, in thousandths
PRECISION == 10

\* `(v * PRECISION_MUL) as i32` with PRECISION_MUL = 1.0 / PRECISION: the
\* cast truncates toward zero
TruncDiv(v, d) == IF v >= 0 THEN v \div d ELSE -((-v) \div d)

\* Point::get_hashable
get_hashable(p) == <<TruncDiv(p[1], PRECISION), TruncDiv(p[2], PRECISION)>>

PointEqNear(p, q) == Abs(p[1] - q[1]) < PRECISION /\ Abs(p[2] - q[2]) < PRECISION

\* <Point as PartialEq>::eq
PointEq(p, q) == get_hashable(p) = get_hashable(q)

\* <Point as Hash>::hash
PointHash(p) == get_hashable(p)

\* Segment::reverse
reverse(s) == [a |-> s.b, b |-> s.a]

\* <Segment as PartialEq>::eq
SegmentEq(s, t) ==
    IF PointEq(s.a, t.a) /\ PointEq(s.b, t.b) THEN TRUE
    ELSE PointEq(s.a, t.b) /\ PointEq(s.b, t.a)

SegmentHashOrdered(s) == <<get_hashable(s.a), get_hashable(s.b)>>

\* <Segment as Hash>::hash
SegmentHash(s) ==
    LET p1 == get_hashable(s.a)
        p2 == get_hashable(s.b)
    IN IF p1[1] > p2[1] \/ (p1[1] = p2[1] /\ p1[2] > p2[2])
       THEN <<p2, p1>>
       ELSE <<p1, p2>>

\* every pair of the points pts compared, every point hashed
ComparePoints ==
    /\ shapes.kind = "points" /\ verdict = NoVerdict
    /\ verdict' = [op |-> "points",
                   eq |-> [i \in DOMAIN shapes.of |->
                             [j \in DOMAIN shapes.of |-> PointEq(shapes.of[i], shapes.of[j])]],
                   hash |-> [i \in DOMAIN shapes.of |-> PointHash(shapes.of[i])]]
    /\ UNCHANGED <<flowVars, spawnVars, shapes, outline>>

\* every pair of the segments compared, every segment hashed
CompareSegments ==
    /\ shapes.kind = "segments" /\ verdict = NoVerdict
    /\ verdict' = [op |-> "segments",
                   eq |-> [i \in DOMAIN shapes.of |->
                             [j \in DOMAIN shapes.of |-> SegmentEq(shapes.of[i], shapes.of[j])]],
                   hash |-> [i \in DOMAIN shapes.of |-> SegmentHash(shapes.of[i])]]
    /\ UNCHANGED <<flowVars, spawnVars, shapes, outline>>

\* sample coordinates on both sides of 0 and of the cell borders 0.01, 0.02
Coords == {-9, 1, 4, 6, 9, 11, 20}

Points == Coords \X Coords

\* a world in which nothing but the shapes of `inputs` exists
InitShapes(inputs) ==
    /\ \E m \in OpenMaps(1, 1) :
         /\ tilemap = [width |-> m.width, height |-> m.height]
         /\ storage = m.storage
    /\ config = DefaultConfig
    /\ fps = 1
    /\ player = <<0, 0>>
    /\ flowfield = DefaultFlowfield
    /\ last = NoCall
    /\ panicked = FALSE
    /\ NoSpawners
    /\ shapes \in inputs
    /\ verdict = NoVerdict
    /\ outline = NoOutline

(* SpecPoint: three points compared and hashed *)

InitPoint == InitShapes([kind : {"points"}, of : Points \X Points \X Points])

SpecPoint == InitPoint /\ [][ComparePoints]_vars

\* C18: == on Points is reflexive, symmetric and transitive, it is decided
\* by the quantized coordinates, points that are == have the same hash;
\* (0.001, 0.001) == (0.006, 0.004) and (0.001, 0.001) /= (0.02, 0.02).
C18_PointEqIsEquivalence ==
    verdict.op = "points" =>
      LET n == DOMAIN shapes.of
          pt == shapes.of
          eq == verdict.eq
      IN /\ \A i \in n : eq[i][i]
         /\ \A i, j \in n : eq[i][j] => eq[j][i]
         /\ \A i, j, k \in n : (eq[i][j] /\ eq[j][k]) => eq[i][k]
         /\ \A i, j \in n : eq[i][j] <=> (verdict.hash[i] = verdict.hash[j])
         /\ \A i, j \in n :
              (pt[i] = <<1, 1>> /\ pt[j] = <<6, 4>>) => eq[i][j]
         /\ \A i, j \in n :
              (pt[i] = <<1, 1>> /\ pt[j] = <<20, 20>>) => ~eq[i][j]

\* C18's case: the three points of the example have been compared
C18_Witness ==
    /\ verdict.op = "points"
    /\ shapes.of = <<<<1, 1>>, <<6, 4>>, <<20, 20>>>>
    /\ verdict.eq[1][2] /\ ~verdict.eq[2][3]

\* C19: two points whose x and whose y differ by less than PRECISION are ==
\* and have the same hash.
C19_NearPointsAreEqual ==
    verdict.op = "points" =>
      \A i, j \in DOMAIN shapes.of :
         PointEqNear(shapes.of[i], shapes.of[j])
           => (verdict.eq[i][j] /\ verdict.hash[i] = verdict.hash[j])

(* SpecSegment: three segments compared and hashed *)

\* sample end points: several in the cell (0, 0), and its neighbours
SegPoints == {<<1, 1>>, <<6, 4>>, <<-9, 4>>, <<11, 1>>, <<11, 9>>, <<1, 11>>}

Segments == [a : SegPoints, b : SegPoints]

InitSegment == InitShapes([kind : {"segments"}, of : Segments \X Segments \X Segments])

SpecSegment == InitSegment /\ [][CompareSegments]_vars

\* C20: a segment and its reverse are == and have the same hash; segments
\* that are == have the same hash; == on Segments is reflexive, symmetric
\* and transitive.
C20_SegmentEqIgnoresDirection ==
    verdict.op = "segments" =>
      LET n == DOMAIN shapes.of
          sg == shapes.of
          eq == verdict.eq
      IN /\ \A i, j \in n :
              sg[j] = reverse(sg[i]) => (eq[i][j] /\ verdict.hash[i] = verdict.hash[j])
         /\ \A i, j \in n : eq[i][j] => verdict.hash[i] = verdict.hash[j]
         /\ \A i \in n : eq[i][i]
         /\ \A i, j \in n : eq[i][j] => eq[j][i]
         /\ \A i, j, k \in n : (eq[i][j] /\ eq[j][k]) => eq[i][k]

\* C20's case: a segment between two cells, its reverse, and a third segment
\* with other end points that is == to both
C20_Witness ==
    /\ verdict.op = "segments"
    /\ shapes.of[1] = [a |-> <<1, 1>>, b |-> <<11, 1>>]
    /\ shapes.of[2] = reverse(shapes.of[1])
    /\ shapes.of[3] = [a |-> <<11, 9>>, b |-> <<-9, 4>>]
    /\ verdict.eq[1][2] /\ verdict.eq[2][3]
    /\ verdict.hash[1] = verdict.hash[3]

----------------------------------------------------------------------------
(* The wall layer of load_tilemap: the tiles' collision shapes become      *)
(* segments, segments met twice cancel, the rest is walked into loops.     *)
(* World coordinates are thousandths as above; a tile of the level is      *)
(* "air", "wall" (id 16, a Rect collision shape the size of the tile) or   *)
(* "ellipse" (id 16, an Ellipse collision shape); tiles are numbered as    *)
(* TileStorage numbers them, row 0 at the bottom of the world.             *)

\* half of tileset.tile_width and tileset.tile_height
HalfTile == 500

TileSize == 2 * HalfTile

\* the values `as i32` saturates to
I32Max == 2147483647
I32Min == -I32Max - 1

\* PRECISION_MUL = 1.0 / PRECISION
PRECISION_MUL == 100

\* Tilemap::tile_to_world_coords
tile_to_world_coords(tile) ==
    <<tile[1] * TileSize + HalfTile, tile[2] * TileSize + HalfTile>>

\* Segment::new
Segment(a, b) == [a |-> a, b |-> b]

\* the four segments of `tiled::ObjectShape::Rect { width, height }` at pos
RectSegments(pos, width, height) ==
    LET half_x == width \div 2
        half_y == height \div 2
        p == << <<pos[1] - half_x, pos[2] + half_y>>,
                <<pos[1] - half_x, pos[2] - half_y>>,
                <<pos[1] + half_x, pos[2] - half_y>>,
                <<pos[1] + half_x, pos[2] + half_y>> >>
    IN <<Segment(p[1], p[2]), Segment(p[2], p[3]),
         Segment(p[3], p[4]), Segment(p[4], p[1])>>

\* `match object_data.shape`: the new_segments of a tile of the given kind
\* (`_ => vec![]` for any shape but Rect and Polygon)
NewSegments(kind, pos) ==
    IF kind = "wall" THEN RectSegments(pos, TileSize, TileSize) ELSE << >>

\* `match id`: the bitmask pushed to the storage
BitmaskOf(kind) == IF kind = "air" THEN {} ELSE WALL_BITMASK

\* the key a HashMap<Point, _> files the point under
Key(p) == PointHash(p)

\* HashSet<Segment>::contains
Contains(segments, s) == \E t \in segments : SegmentEq(t, s)

\* Vec::swap_remove(i), 1-based
SwapRemove(v, i) ==
    [j \in 1..(Len(v) - 1) |-> IF j = i THEN v[Len(v)] ELSE v[j]]

\* HashMap::insert
Insert(f, k, v) == [x \in DOMAIN f \cup {k} |-> IF x = k THEN v ELSE f[x]]

\* HashMap::remove
Without(f, k) == [x \in DOMAIN f \ {k} |-> f[x]]

\* the first position of a segment == s in v, 0 if there is none
Position(v, s) ==
    IF \E i \in DOMAIN v : SegmentEq(v[i], s)
    THEN CHOOSE i \in DOMAIN v :
           SegmentEq(v[i], s) /\ \A j \in 1..(i - 1) : ~SegmentEq(v[j], s)
    ELSE 0

RegisterKeepsShared(reg, s) ==
    LET k == Key(s.a) IN
    [segments |-> reg.segments \cup {s},
     points_map |-> IF k \in DOMAIN reg.points_map
                    THEN Insert(reg.points_map, k, Append(reg.points_map[k], s))
                    ELSE Insert(reg.points_map, k, <<s>>),
     panic |-> reg.panic]

\* the body of `for &new_segment in new_segments.iter()`;
\* reg = [segments, points_map, panic]
RegisterSegment(reg, s) ==
    IF reg.panic THEN reg
    ELSE IF Contains(reg.segments, s)
    THEN LET k == Key(s.b) IN
         IF k \notin DOMAIN reg.points_map
         THEN [reg EXCEPT !.panic = TRUE]
         ELSE LET v == reg.points_map[k]
                  index == Position(v, s)
                  left == {t \in reg.segments : ~SegmentEq(t, s)}
              IN IF Len(v) <= 1
                 THEN [segments |-> left, points_map |-> Without(reg.points_map, k),
                       panic |-> FALSE]
                 ELSE IF index = 0
                 THEN [reg EXCEPT !.panic = TRUE]
                 ELSE [segments |-> left,
                       points_map |-> Insert(reg.points_map, k, SwapRemove(v, index)),
                       panic |-> FALSE]
    ELSE LET k == Key(s.a) IN
         [segments |-> reg.segments \cup {s},
          points_map |-> IF k \in DOMAIN reg.points_map
                         THEN Insert(reg.points_map, k, Append(reg.points_map[k], s))
                         ELSE Insert(reg.points_map, k, <<s>>),
          panic |-> FALSE]

\* new_segments registered from the n-th on
RECURSIVE RegisterFrom(_, _, _)
RegisterFrom(reg, new_segments, n) ==
    IF n > Len(new_segments) THEN reg
    ELSE CHOOSE r \in {RegisterFrom(next, new_segments, n + 1) :
                         next \in {RegisterSegment(reg, new_segments[n])}} : TRUE

\* the two `for` loops over the tiles, from the tile with storage index i on
RECURSIVE RegisterTiles(_, _, _)
RegisterTiles(reg, level, i) ==
    IF i >= level.width * level.height THEN reg
    ELSE CHOOSE r \in
           {RegisterTiles(next, level, i + 1) :
              next \in {RegisterFrom(reg,
                          NewSegments(level.tiles[i],
                              tile_to_world_coords(<<i % level.width, i \div level.width>>)),
                          1)}} : TRUE

\* `(v * PRECISION_MUL) as i32` for the quotient v = n / d
TruncQuot(n, d) ==
    IF (n >= 0) = (d > 0) THEN Abs(n) \div Abs(d) ELSE -(Abs(n) \div Abs(d))

SlopeIgnored(s) == 0

\* Segment::get_slope_correlate: the division by zero gives an infinity,
\* which the cast saturates, or NaN, which it turns into 0
get_slope_correlate(s) ==
    LET dy == s.b[2] - s.a[2]
        dx == s.b[1] - s.a[1]
    IN IF dx = 0
       THEN IF dy > 0 THEN I32Max ELSE IF dy < 0 THEN I32Min ELSE 0
       ELSE TruncQuot(dy * PRECISION_MUL, dx)

\* the direction of Segment::as_vec2, reduced to lowest terms
Heading(s) ==
    LET x == s.b[1] - s.a[1]
        y == s.b[2] - s.a[2]
        g == Gcd(Abs(x), Abs(y))
    IN IF g = 0 THEN <<0, 0>> ELSE <<x \div g, y \div g>>

\* Segment::angle_between, with TAU added if negative: the angle as the
\* vector <<cos, sin>> scaled by a positive factor
Turn(s, seg) ==
    LET d == Heading(s)
        r == Heading(seg)
    IN <<d[1] * r[1] + d[2] * r[2], d[1] * r[2] - d[2] * r[1]>>

\* 0 for an angle in [0, PI), 1 for an angle in [PI, TAU)
HalfTurn(t) == IF t[2] > 0 \/ (t[2] = 0 /\ t[1] > 0) THEN 0 ELSE 1

\* `angle < min_angle`
AngleLess(t, u) ==
    \/ HalfTurn(t) < HalfTurn(u)
    \/ HalfTurn(t) = HalfTurn(u) /\ t[1] * u[2] - t[2] * u[1] > 0

\* the index of the segment the walk continues with: the first of those
\* whose reverse makes the smallest angle with s
NextSegment(s, segs) ==
    IF Len(segs) = 1 THEN 1
    ELSE CHOOSE i \in DOMAIN segs :
           /\ \A j \in 1..(i - 1) :
                AngleLess(Turn(s, reverse(segs[i])), Turn(s, reverse(segs[j])))
           /\ \A j \in (i + 1)..Len(segs) :
                ~AngleLess(Turn(s, reverse(segs[j])), Turn(s, reverse(segs[i])))

VertexNeverSeen(vertices, p) == FALSE

\* Vec<Point>::contains
HasVertex(vertices, p) == \E i \in DOMAIN vertices : PointEq(vertices[i], p)

\* one pass of the inner `loop`;
\* w = [s, vertices, slope, first_slope, points_map, walked, done, panic]
WalkStep(w) ==
    LET k == Key(w.s.b) IN
    IF k \notin DOMAIN w.points_map \/ w.points_map[k] = << >>
    THEN [w EXCEPT !.panic = TRUE]
    ELSE LET segs == w.points_map[k]
             index == NextSegment(w.s, segs)
             s == segs[index]
             rest == SwapRemove(segs, index)
             points_map == IF rest = << >> THEN Without(w.points_map, Key(s.a))
                           ELSE Insert(w.points_map, k, rest)
             next_slope == get_slope_correlate(s)
             vertices == IF w.slope # next_slope THEN Append(w.vertices, s.a)
                         ELSE w.vertices
             closes == HasVertex(vertices, s.b) /\ Key(s.b) \notin DOMAIN points_map
         IN [s |-> s,
             vertices |-> IF closes /\ w.first_slope = next_slope
                          THEN SwapRemove(vertices, 1) ELSE vertices,
             slope |-> next_slope,
             first_slope |-> w.first_slope,
             points_map |-> points_map,
             walked |-> Append(w.walked, s),
             done |-> closes,
             panic |-> FALSE]

\* the inner `loop` until its `break` or a panic
RECURSIVE Walk(_)
Walk(w) ==
    IF w.done \/ w.panic THEN w
    ELSE CHOOSE r \in {Walk(next) : next \in {WalkStep(w)}} : TRUE

\* what a finished walk w leaves: the loop's vertices and segments and the
\* points map; `let (a, b) = (vertices[0], vertices[1])` panics on a loop of
\* fewer than two vertices
LoopOf(w) ==
    [vertices |-> w.vertices, walked |-> w.walked, points_map |-> w.points_map,
     panic |-> w.panic \/ Len(w.vertices) < 2]

\* the walk that starts with segment s, the points map holding the others
StartWalk(s, points_map) ==
    [s |-> s,
     vertices |-> <<s.a>>,
     slope |-> get_slope_correlate(s),
     first_slope |-> get_slope_correlate(s),
     points_map |-> points_map,
     walked |-> <<s>>,
     done |-> FALSE,
     panic |-> FALSE]

\* one pass of `while let Some((&start_point, start_segments)) =
\* points_map.iter_mut().next()` when the HashMap yields start_point first
TraceFrom(points_map, start_point) ==
    LET start_segments == points_map[start_point]
        rest == SwapRemove(start_segments, 1)
    IN LoopOf(Walk(StartWalk(start_segments[1],
                             IF rest = << >> THEN Without(points_map, start_point)
                             ELSE Insert(points_map, start_point, rest))))

\* load_tilemap reaches the wall layer: every tile's bitmask is pushed to the
\* storage and its segments are registered
LoadWalls ==
    /\ ~panicked
    /\ outline.phase = "level"
    /\ LET level == outline.level
           reg == RegisterTiles([segments |-> {}, points_map |-> << >>, panic |-> FALSE],
                                level, 0)
       IN /\ tilemap' = [width |-> level.width, height |-> level.height]
          /\ storage' = [i \in DOMAIN level.tiles |-> BitmaskOf(level.tiles[i])]
          /\ outline' = [phase |-> "trace", level |-> level,
                         segments |-> reg.segments, points_map |-> reg.points_map,
                         loops |-> << >>, walks |-> << >>]
          /\ panicked' = reg.panic
    /\ UNCHANGED <<config, fps, player, flowfield, last>>
    /\ UNCHANGED <<spawnVars, shapes, verdict>>

\* one loop is walked, starting from whichever point the HashMap yields
TraceLoop ==
    /\ ~panicked
    /\ outline.phase = "trace"
    /\ \E start_point \in DOMAIN outline.points_map :
         \E t \in {TraceFrom(outline.points_map, start_point)} :
            /\ outline' = [outline EXCEPT !.points_map = t.points_map,
                                          !.loops = Append(@, t.vertices),
                                          !.walks = Append(@, t.walked)]
            /\ panicked' = t.panic
    /\ UNCHANGED <<tilemap, storage, config, fps, player, flowfield, last>>
    /\ UNCHANGED <<spawnVars, shapes, verdict>>

\* the points map is empty: the `while let` ends
FinishWalls ==
    /\ ~panicked
    /\ outline.phase = "trace"
    /\ DOMAIN outline.points_map = {}
    /\ outline' = [outline EXCEPT !.phase = "traced"]
    /\ UNCHANGED <<flowVars, spawnVars, shapes, verdict>>

\* the levels of w x h tiles with at most n tiles whose shape is an ellipse
Levels(w, h, n) ==
    {[width |-> w, height |-> h, tiles |-> t] :
       t \in {u \in [0..(w * h - 1) -> {"air", "wall", "ellipse"}] :
                Cardinality({i \in DOMAIN u : u[i] = "ellipse"}) <= n}}

\* before load_tilemap: no Tilemap, an empty TileStorage
InitLevel(levels) ==
    /\ tilemap = [width |-> 0, height |-> 0]
    /\ storage = << >>
    /\ config = DefaultConfig
    /\ fps = 1
    /\ player = <<0, 0>>
    /\ flowfield = DefaultFlowfield
    /\ last = NoCall
    /\ panicked = FALSE
    /\ NoSpawners
    /\ shapes = [kind |-> "none", of |-> << >>]
    /\ verdict = NoVerdict
    /\ \E level \in levels : outline = [phase |-> "level", level |-> level]

(* SpecTrace: the wall layer of every level of TraceW x TraceH tiles of air *)
(* and full walls                                                          *)

TraceW == 3
TraceH == 3

InitTrace == InitLevel(Levels(TraceW, TraceH, 0))

NextTrace ==
    \/ LoadWalls
    \/ TraceLoop
    \/ FinishWalls

SpecTrace == InitTrace /\ [][NextTrace]_vars

(* SpecShapes: as SpecTrace on smaller levels in which up to MaxEllipses   *)
(* wall tiles carry an ellipse                                             *)

ShapeW == 2
ShapeH == 2
MaxEllipses == 1

InitShape == InitLevel(Levels(ShapeW, ShapeH, MaxEllipses))

SpecShapes == InitShape /\ [][NextTrace]_vars

\* the wall tiles of the level being loaded
WallTiles == {i \in DOMAIN outline.level.tiles : outline.level.tiles[i] # "air"}

\* every segment has been walked
Traced == outline.phase \in {"trace", "traced"} /\ DOMAIN outline.points_map = {}

\* the walk that gave the k-th loop ended where it began
Closed(k) ==
    LET walk == outline.walks[k]
    IN PointEq(walk[Len(walk)].b, walk[1].a)

\* C21: a level whose only wall is one full-wall tile is traced into exactly
\* one closed loop of 4 vertices, from whichever segment the walk starts.
C21_SingleTileIsOneSquare ==
    (outline.phase \in {"trace", "traced"} /\ Cardinality(WallTiles) = 1) =>
       /\ ~panicked
       /\ Traced => /\ Len(outline.loops) = 1
                    /\ Len(outline.loops[1]) = 4
                    /\ Closed(1)

\* C21's case: the tile in the middle of the level is the only wall and has
\* been traced from its lower right corner
C21_Witness ==
    /\ outline.phase = "traced"
    /\ WallTiles = {(TraceW * TraceH) \div 2}
    /\ Len(outline.loops) = 1
    /\ outline.loops[1][1] = <<2 * TileSize, TileSize>>

\* twice the signed area of the polygon with the vertices v: positive when
\* they are listed counter-clockwise
RECURSIVE Shoelace(_, _)
Shoelace(v, i) ==
    IF i > Len(v) THEN 0
    ELSE LET p == v[i]
             q == v[(i % Len(v)) + 1]
         IN (p[1] * q[2] - q[1] * p[2]) \div (TileSize * TileSize) + Shoelace(v, i + 1)

SignedArea2(v) == Shoelace(v, 1)

\* C22: every loop the tracer produces lists its vertices counter-clockwise,
\* the loops around enclosed open regions included.
C22_LoopsAreCounterClockwise ==
    outline.phase \in {"trace", "traced"} =>
       \A k \in DOMAIN outline.loops : SignedArea2(outline.loops[k]) > 0

\* the level holds a wall tile whose collision shape is an ellipse
HasEllipse == \E i \in DOMAIN outline.level.tiles : outline.level.tiles[i] = "ellipse"

\* C23: a wall tile whose collision shape is neither a rectangle nor a
\* polygon makes loading fail: once its wall layer has been processed the
\* process has panicked.
C23_EllipseIsFatal ==
    (outline.phase \in {"trace", "traced"} /\ HasEllipse) => panicked

----------------------------------------------------------------------------
(* More on the cost field *)

\* the diagonal entries of update_cost's NEIGHBORS that lead from cell i to
\* an in-bounds, non-wall, unvisited cell
OpenDiagonals(i) ==
    LET x == i % tilemap.width
        y == i \div tilemap.width
    IN {c \in {CostNeighbors[k] : k \in 1..Len(CostNeighbors)} :
          /\ c.step_cost = DiagonalStep
          /\ CellAt(x + c.dx, y + c.dy) # -1
          /\ ~WallAt(x + c.dx, y + c.dy)
          /\ ~VisitedAt(CellAt(x + c.dx, y + c.dy))}

\* C24: when a cell is expanded, a diagonal step to an in-bounds, non-wall,
\* unvisited neighbour is skipped exactly if both cells orthogonally adjacent
\* to the diagonal are walls; otherwise the neighbour gets the cell's cost
\* + 14, is marked visited and is pushed.
C24_DiagonalSkippedIffBothWalls ==
    flowfield.width > 0 =>
        \A nd \in MinNodes(flowfield.heap) :
            \A c \in OpenDiagonals(nd.index) :
                LET x == nd.index % tilemap.width
                    y == nd.index \div tilemap.width
                    n == CellAt(x + c.dx, y + c.dy)
                    after == Expand(flowfield, nd)
                    taken == /\ after.cost_grid[n] = <<nd.cost + DiagonalStep, TRUE>>
                             /\ [index |-> n, cost |-> nd.cost + DiagonalStep] \in after.heap
                    skipped == /\ after.cost_grid[n] = flowfield.cost_grid[n]
                               /\ \A o \in after.heap : o.index # n
                IN IF WallAt(x + c.dx, y) /\ WallAt(x, y + c.dy) THEN skipped ELSE taken

\* ceil(tile_count / (frames per second * seconds_per_iter))
CeilBudget ==
    LET den == fps * config.seconds_per_iter
    IN (flowfield.width * flowfield.height * 100 + den - 1) \div den

\* the flowfields update_cost leaves when a propagating wavefront gets k pops
AfterPops(ff, k) ==
    {[r EXCEPT !.target_changed = IF r.heap = {} THEN FALSE ELSE @] :
       r \in PopLoop({ff}, k)}

\* the number of entries a step popped from a non-empty frontier: the least
\* number of pops that explains the flowfield after the step
Pops ==
    LET ff == update_target(flowfield, tilemap, player')
        ks == {k \in 0..Cardinality(Cells) : flowfield' \in AfterPops(ff, k)}
    IN CHOOSE k \in ks : \A j \in ks : k <= j

\* C25: the budget of a tick is N = ceil(tile_count / (frames_per_second *
\* seconds_per_iter)) >= 1: a tick on a propagating wavefront pops at most N
\* entries, and fewer than N only because the frontier has emptied.
C25_BudgetIsCeiling ==
    [][(flowfield.width > 0 /\ flowfield.heap # {}) =>
          /\ CeilBudget >= 1
          /\ Pops <= CeilBudget
          /\ Pops < CeilBudget => flowfield'.heap = {}]_vars

\* the tile the player stands on in the tick a step performs
LiveTile == AsIVec2(world_to_tile_coords(tilemap, player'))

\* after the step a wavefront for LiveTile is under way or already drained
StartedFor(tile) ==
    LET start == tile[1] + tile[2] * flowfield'.width
    IN /\ flowfield'.transient_target = tile
       /\ flowfield'.cost_grid[start][2]
       /\ flowfield'.cost_grid[start][1] = 0 \/ IsWall(start)
       /\ \A o \in flowfield'.heap : flowfield'.cost_grid[o.index] = <<o.cost, TRUE>>

\* C26: a tick that begins with an empty frontier while the player's tile
\* differs from the transient target starts a wavefront for the player's
\* tile; so a move made during a wavefront is picked up by the first tick
\* after that wavefront has drained.
C26_MoveStartsWavefront ==
    [][(/\ flowfield.width > 0
        /\ flowfield.heap = {}
        /\ LiveTile # flowfield.transient_target)
       => StartedFor(LiveTile)]_vars

\* C26's case: a wavefront has drained (and cleared target_changed) although
\* the player had moved to another tile while it propagated
C26_Witness ==
    /\ Drained
    /\ AsIVec2(flowfield.target) # flowfield.transient_target
    /\ player # <<0, 0>>

\* the flowfield as update_cost has it right after seeding a wavefront in a
\* tick with the player at p, << >> if that tick seeds none
SeededAt(p) ==
    LET ff == update_target(flowfield, tilemap, p)
    IN IF flowfield.width > 0 /\ ff.target_changed /\ StartsWavefront(ff)
       THEN SeedWavefront(ff)
       ELSE << >>

\* C27: right after a wavefront is seeded, before any pop, the transient
\* target is the live target's tile, the target cell has cost 0 and is
\* visited, no other cell is visited and the frontier is exactly the entry
\* (target cell, 0).
C27_SeedState ==
    \A p \in MiddleRow :
       SeededAt(p) # << >> =>
          LET ff == SeededAt(p)[1]
              tile == AsIVec2(world_to_tile_coords(tilemap, p))
              cell == tile[1] + tile[2] * ff.width
          IN /\ Len(SeededAt(p)) = 2
             /\ ff.transient_target = tile
             /\ ff.cost_grid[cell] = <<0, TRUE>>
             /\ \A i \in DOMAIN ff.cost_grid : i # cell => ~ff.cost_grid[i][2]
             /\ ff.heap = {[index |-> cell, cost |-> 0]}

\* C27's case: a tick is about to seed a wavefront over the visited flags and
\* costs an earlier wavefront left
C27_Witness ==
    /\ \E p \in MiddleRow : SeededAt(p) # << >>
    /\ \E i \in Cells : VisitedAt(i) /\ CostAt(i) > 0 /\ CostAt(i) < U32Max
    /\ \E i \in Cells : VisitedAt(i) /\ IsWall(i)

\* the cells an iteration of the pop loop pushed: those with a new frontier
\* entry or a newly written cost
Pushed(before, after) ==
    {o.index : o \in after.heap \ before.heap}
    \cup {n \in DOMAIN before.cost_grid :
            storage[n] = {} /\ after.cost_grid[n] # before.cost_grid[n]}

\* C28: within a wavefront a cell is pushed at most once and expanded at most
\* once, and a popped entry carries the cost the grid holds for its cell (so no
\* popped entry disagreeing with the grid is expanded).  Pushed cells are
\* marked visited, the mark is kept until the next seeding, the frontier holds
\* one entry per cell, and an iteration pushes only unmarked cells.
C28_PushedAndExpandedOnce ==
    flowfield.width > 0 =>
       /\ \A o \in flowfield.heap :
             /\ flowfield.cost_grid[o.index] = <<o.cost, TRUE>>
             /\ \A q \in flowfield.heap : q.index = o.index => q = o
       /\ \A nd \in MinNodes(flowfield.heap) :
             LET after == Expand(flowfield, nd)
             IN /\ flowfield.cost_grid[nd.index][1] = nd.cost
                /\ \A n \in Pushed(flowfield, after) :
                      /\ ~VisitedAt(n)
                      /\ \A q \in flowfield.heap : q.index # n
                      /\ Cardinality({q \in after.heap : q.index = n}) = 1
                /\ \A q \in after.heap : q.index # nd.index
                /\ \A i \in Cells : VisitedAt(i) => after.cost_grid[i][2]

\* C28's case: a frontier of several entries next to cells the wavefront has
\* already expanded
C28_Witness ==
    /\ Cardinality(flowfield.heap) >= 2
    /\ \E i \in Cells :
          /\ VisitedAt(i) /\ ~IsWall(i) /\ CostAt(i) > 0
          /\ \A q \in flowfield.heap : q.index # i
    /\ \E nd \in MinNodes(flowfield.heap) :
          Pushed(flowfield, Expand(flowfield, nd)) # {}

\* the cells the current wavefront has popped and expanded: marked visited,
\* open, and no longer on the frontier
Expanded ==
    {i \in Cells : VisitedAt(i) /\ ~IsWall(i)
                   /\ \A q \in flowfield.heap : q.index # i}

\* C29: within a wavefront the popped costs never decrease, also from one tick
\* to the next: the entry popped next costs no less than any cell expanded so
\* far or than the entry popped right before it, and no less than what the
\* entry after it will cost.
C29_PopsAreNonDecreasing ==
    flowfield.width > 0 =>
       \A nd \in MinNodes(flowfield.heap) :
          /\ \A i \in Expanded : CostAt(i) <= nd.cost
          /\ \A o \in Expand(flowfield, nd).heap : nd.cost <= o.cost
          /\ \A nx \in MinNodes(Expand(flowfield, nd).heap) : nd.cost <= nx.cost

\* C29's case: a wavefront between two ticks, with an expanded cell behind it
\* and entries of different costs on the frontier
C29_Witness ==
    /\ \E i \in Expanded : CostAt(i) >= OrthogonalStep
    /\ \E nd \in MinNodes(flowfield.heap) :
          \E o \in flowfield.heap : o.cost > nd.cost

\* the cell of column col and row row holds the infinite cost (out of bounds:
\* no cell, no wall)
InfiniteAt(col, row) ==
    /\ col >= 0 /\ col < flowfield.width /\ row >= 0 /\ row < flowfield.height
    /\ CostAt(col + row * flowfield.width) = U32Max

\* the diagonal-corner-cutting rule for the step nb out of cell i: the step
\* is diagonal and both cells orthogonally adjacent to it are walls
CornerCut(i, nb) ==
    LET col == i % flowfield.width
        row == i \div flowfield.width
    IN /\ nb.dx # 0 /\ nb.dy # 0
       /\ InfiniteAt(col + nb.dx, row)
       /\ InfiniteAt(col, row + nb.dy)

\* the entries of NEIGHBORS the scan of cell i may choose: in bounds, not
\* blocked by the cell's own subtile mask, of finite cost, no corner cut
Eligible(i) ==
    {k \in DOMAIN NEIGHBORS :
       LET nb == NEIGHBORS[k]
           col == (i % flowfield.width) + nb.dx
           row == (i \div flowfield.width) + nb.dy
       IN /\ col >= 0 /\ col < flowfield.width /\ row >= 0 /\ row < flowfield.height
          /\ ~(nb.mask \subseteq storage[i])
          /\ ~InfiniteAt(col, row)
          /\ ~CornerCut(i, nb)}

\* the cost of the neighbour of cell i that entry k of NEIGHBORS names
NeighborCost(i, k) ==
    CostAt((i % flowfield.width) + NEIGHBORS[k].dx
           + ((i \div flowfield.width) + NEIGHBORS[k].dy) * flowfield.width)

\* the first entry in scan order among the eligible ones of least cost
Best(i) ==
    CHOOSE k \in Eligible(i) :
       \A j \in Eligible(i) :
          \/ NeighborCost(i, k) < NeighborCost(i, j)
          \/ (NeighborCost(i, k) = NeighborCost(i, j) /\ k <= j)

\* C30: a query that recomputes a cell (and does not smooth it) memoizes the
\* direction toward the eligible neighbour of least cost, the first in scan
\* order N, E, S, W, NE, SE, SW, NW among equals.
C30_RecomputePicksCheapest ==
    [][\A tile \in TileOrigins :
          (Query(tile) /\ last'.recomputed /\ ~last'.smoothed
             /\ Eligible(last'.index) # {})
          => flowfield'.field[last'.index] = Some(NEIGHBORS[Best(last'.index)].dir)]_vars

----------------------------------------------------------------------------
(* SpecStep: flow queries between the ticks of a wavefront that advances   *)
(* by at most one pop per tick                                             *)

\* frame rates that leave a budget of one pop and of no pop per tick
SlowRates(tiles) == {2 * tiles, 3 * tiles}

InitStep ==
    /\ InitOn(WalledMaps(FlowW, FlowH, FlowWalls))
    /\ fps \in SlowRates(tilemap.width * tilemap.height)
    /\ player \in DiagonalSpots

NextStep ==
    \/ Setup
    \/ \E p \in DiagonalSpots : Tick(p)
    \/ \E tile \in TileOrigins : Query(tile)

SpecStep == InitStep /\ [][NextStep]_vars

\* cell i has an in-bounds neighbour of infinite cost
HasInfiniteNeighbor(i) ==
    \E k \in DOMAIN NEIGHBORS :
       InfiniteAt((i % flowfield.width) + NEIGHBORS[k].dx,
                  (i \div flowfield.width) + NEIGHBORS[k].dy)

\* the direction get_flow_at_tile has for cell i when it reaches the
\* smoothing test: the scan's choice if it rescans, else the memoized one
ComputedDir(i) ==
    IF flowfield.field[i] = None \/ flowfield.target_changed
       \/ IsReferenceAngle(flowfield.field[i][1])
    THEN ScanNeighbors(flowfield, i, 1,
                       [min |-> U32Max, mask |-> {}, f |-> flowfield.field[i]]).f
    ELSE flowfield.field[i]

\* the conditions under which a query may smooth cell i
MaySmooth(i) ==
    /\ config.flowfield_smooth
    /\ ~HasInfiniteNeighbor(i)
    /\ CostAt(i) = get_minimum_cost_at_index(flowfield, i)
    /\ \/ \E d \in {ComputedDir(i)} : d # None /\ d[1][1] # 0 /\ d[1][2] # 0
       \/ (i % flowfield.width) = flowfield.transient_target[1]
       \/ (i \div flowfield.width) = flowfield.transient_target[2]

\* C31: a query smooths a cell only if smoothing is on, no in-bounds
\* neighbour of the cell has infinite cost, the cell's cost is its octile
\* distance to the transient target, and the computed direction is a pure
\* diagonal or the cell shares a row or column with the transient target; so
\* no cell with an infinite-cost neighbour ever holds a non-compass direction.
C31_SmoothsOnlyInTheOpen ==
    /\ [][\A tile \in TileOrigins :
             (Query(tile) /\ last'.smoothed) => MaySmooth(last'.index)]_vars
    /\ [](\A i \in DOMAIN flowfield.field :
             HasInfiniteNeighbor(i) =>
                (flowfield.field[i] = None \/ IsCompass(flowfield.field[i])))

\* the direction d, returned for cell i, leads to an in-bounds neighbour of
\* strictly lower cost
Descends(i, d) ==
    LET col == (i % flowfield.width) + d[1]
        row == (i \div flowfield.width) + d[2]
    IN /\ col >= 0 /\ col < flowfield.width /\ row >= 0 /\ row < flowfield.height
       /\ CostAt(col + row * flowfield.width) < CostAt(i)

\* C32: with smoothing off and the wavefront drained, a query for a reached
\* open cell other than the target cell returns a direction toward an
\* in-bounds neighbour of strictly lower cost (so the flow has no cycle and no
\* dead end), whatever queries and ticks came before.
C32_FlowDescends ==
    [][\A tile \in TileOrigins :
          (/\ Query(tile)
           /\ Drained /\ ~config.flowfield_smooth
           /\ ~IsWall(last'.index) /\ VisitedAt(last'.index)
           /\ last'.index # TargetCell)
          => /\ ~panicked'
             /\ IsCompass(last'.dir)
             /\ Descends(last'.index, last'.dir[1])]_vars

\* the delay Spawner::from_object arms the first timer with
FirstDelay(sp) == IF sp.immediate THEN 0 ELSE sp.delay

\* C33: an active spawner whose first timer is still untouched spawns in an
\* update exactly when the frame's delta reaches `delay` (0 if `immediate`);
\* and the timer armed by every spawn that leaves the spawner active runs for
\* `interval` from the time the spawn was due (its duration plus the time it
\* carries over is `interval`), also when the spawn completes a cycle of a
\* repeating spawner.
C33_IntervalCadence ==
    [][\A id \in DOMAIN spawners :
          IsStep("update_spawners") =>
             /\ (/\ spawners[id].active
                 /\ spawners[id].timer = NewTimer(FirstDelay(spawners[id]))
                 /\ ~AtCapacity(chasers, config)
                 /\ ~panicked')
                => (id \in spawned' <=> sched.delta >= FirstDelay(spawners[id]))
             /\ (id \in spawned' /\ spawners'[id].active)
                => spawners'[id].timer.duration + spawners'[id].timer.elapsed
                     = spawners'[id].interval]_vars

\* the four edges of the wall tile with storage index i
EdgesOf(i) ==
    LET r == RectSegments(tile_to_world_coords(<<i % outline.level.width,
                                                 i \div outline.level.width>>),
                          TileSize, TileSize)
    IN {r[n] : n \in DOMAIN r}

\* the edges that belong to exactly one wall tile
BoundaryEdges ==
    {e \in UNION {EdgesOf(i) : i \in WallTiles} :
       Cardinality({i \in WallTiles : \E f \in EdgesOf(i) : SegmentEq(f, e)}) = 1}

\* the segments the per-start-point map lists under the key k
ListedAt(k) == {outline.points_map[k][n] : n \in DOMAIN outline.points_map[k]}

\* the wall tiles have been registered and no loop has been traced yet
Registered == outline.phase = "trace" /\ outline.loops = << >>

\* C34: once every wall tile is processed, the segment registry and the
\* per-start-point map hold exactly the tile edges that belong to exactly one
\* wall tile, each once and under its start point; an edge shared by two
\* adjacent wall tiles is in neither.
C34_OnlyBoundaryEdgesRemain ==
    Registered =>
       /\ ~panicked
       /\ outline.segments = BoundaryEdges
       /\ UNION {ListedAt(k) : k \in DOMAIN outline.points_map} = BoundaryEdges
       /\ \A k \in DOMAIN outline.points_map :
             /\ Len(outline.points_map[k]) = Cardinality(ListedAt(k))
             /\ \A e \in ListedAt(k) : Key(e.a) = k

\* C34's case: two adjacent wall tiles have been registered and the edge they
\* share is gone
C34_Witness ==
    /\ Registered
    /\ {0, 1} \subseteq WallTiles
    /\ \E e \in EdgesOf(0) :
          /\ \E f \in EdgesOf(1) : SegmentEq(e, f)
          /\ \A t \in outline.segments : ~SegmentEq(t, e)

\* the number of segments the per-start-point map still lists
RECURSIVE ListedFrom(_)
ListedFrom(keys) ==
    IF keys = {} THEN 0
    ELSE LET k == CHOOSE x \in keys : TRUE
         IN Len(outline.points_map[k]) + ListedFrom(keys \ {k})

Listed == ListedFrom(DOMAIN outline.points_map)

\* the segments of the first n walks, and how many they are
RECURSIVE WalkedCount(_)
WalkedCount(n) == IF n = 0 THEN 0 ELSE Len(outline.walks[n]) + WalkedCount(n - 1)

WalkedSet == UNION {{outline.walks[k][n] : n \in DOMAIN outline.walks[k]} :
                      k \in DOMAIN outline.walks}

\* the loop v has a vertex whose incoming and outgoing edges have equal slope
HasCollinearVertex(v) ==
    \E i \in DOMAIN v :
       LET prev == v[IF i = 1 THEN Len(v) ELSE i - 1]
           next == v[IF i = Len(v) THEN 1 ELSE i + 1]
       IN get_slope_correlate(Segment(prev, v[i]))
            = get_slope_correlate(Segment(v[i], next))

\* C35: tracing ends (it never panics, every pass of the outer loop takes
\* segments off the map, and the map ends up empty); then every boundary
\* segment has been walked exactly once, every loop is closed, and no loop
\* keeps a vertex between two edges of equal slope.
C35_TracingTerminates ==
    /\ [](outline.phase \in {"trace", "traced"} =>
            /\ ~panicked
            /\ WalkedCount(Len(outline.walks)) + Listed = Cardinality(outline.segments)
            /\ Cardinality(WalkedSet) = WalkedCount(Len(outline.walks))
            /\ WalkedSet \subseteq outline.segments
            /\ \A k \in DOMAIN outline.loops :
                  Closed(k) /\ ~HasCollinearVertex(outline.loops[k])
            /\ (outline.phase = "traced" => Listed = 0))
    /\ [][outline.phase = "trace" /\ outline'.phase = "trace" => Listed' < Listed]_vars

\* C35's case: tracing has ended on a level where two wall tiles touch at a
\* corner only
C35_Witness ==
    /\ outline.phase = "traced"
    /\ {0, TraceW + 1} \subseteq WallTiles
    /\ {1, TraceW} \cap WallTiles = {}
    /\ WalkedSet = outline.segments

\* C36: whatever tile the target is on, a cell whose wall bitmask is not zero
\* holds the infinite cost in every reachable state of the cost grid.
C36_WallsStayInfinite ==
    flowfield.width > 0 =>
       \A i \in Cells : IsWall(i) => CostAt(i) = U32Max

(* SpecCount: as SpecSpawn, for one spawner whose num_spawn may also be 0 *)

\* `object_data.get_i32("num_spawn")` from 0 on
CountedProps ==
    [active_default : BOOLEAN, num_spawn : 0..MaxNumSpawn, delay : 0..MaxDelay,
     immediate : BOOLEAN, interval : 0..MaxInterval, repeats : BOOLEAN]

InitCount ==
    \E props \in [1..1 -> CountedProps], max_chasers \in 0..MaxChasers :
        InitSpawners(props, max_chasers)

SpecCount == InitCount /\ [][NextSpawn]_vars

\* C37: the count of a spawner with num_spawn >= 0 stays within 0..num_spawn,
\* and a spawner that does not repeat counts every agent it creates, so that
\* it creates at most num_spawn agents between two resets.
C37_CountWithinNumSpawn ==
    /\ [](\A id \in DOMAIN spawners :
            spawners[id].num_spawn >= 0 =>
               spawners[id].count \in 0..spawners[id].num_spawn)
    /\ [][\A id \in DOMAIN spawners :
            (IsStep("update_spawners") /\ ~spawners[id].repeats /\ id \in spawned')
               => spawners'[id].count = spawners[id].count + 1]_vars

\* C38: with non-negative delay and interval, update_spawners never fails for
\* any tick length: the duration it re-arms the timer with after a spawn is
\* never negative.
C38_RearmNeverNegative ==
    [][IsStep("update_spawners") => ~panicked']_vars

\* the frame ends in this step: the last sync point has applied the deferred
\* creations and removals
EndsTick == sched.running /\ ~sched'.running

\* C39: at the end of every tick the number of live agents is at most
\* max_chasers, whatever spawners fired in the tick and however max_chasers
\* was changed at run time.
C39_PopulationWithinCap ==
    [][EndsTick => Len(chasers') <= config'.max_chasers]_vars

====
